---- MODULE Spec2Model ----
(***************************************************************************)
(* Rendezvous hub of claude-remote: the connection registry, the pending   *)
(* pair store, the room table, the WebSocket dispatcher, the pairing API   *)
(* and the heartbeat reaper (RelayServer + PairingService); and the        *)
(* session multiplexer of the desktop bridge (SessionManager) with its     *)
(* persistent workers (ClaudeProcess), and the desktop agent of the relay. *)
(*                                                                         *)
(* Strings the code inspects character by character (pair codes) are       *)
(* sequences of one-character strings.  The registry is a JavaScript Map,  *)
(* whose iteration order is insertion order: it is a sequence of client    *)
(* records, at most one per key as long as MapSet is what writes it.       *)
(* uuidv4() is taken to return a fresh id (the next unused integer);       *)
(* Math.random() in generatePairCode is a free choice.                     *)
(***************************************************************************)
EXTENDS Integers, Sequences, FiniteSets, TLC

\* ------------------------------------------------------------------ bounds
MaxSockets == 2        \* WebSocket objects the hub ever accepts
MaxRooms   == 2        \* rooms ever created (uuids handed out)
MaxTicks   == 1        \* times the clock is advanced
MaxIds     == 4        \* session ids the multiplexer ever hands out
MaxMinted  == 2        \* session ids the desktop agent ever generates
MaxTurns   == 1        \* answered turns counted per session of the desktop agent
maxSessions == 3       \* config.maxSessions
MaxChildren == 3       \* children one worker ever spawns, pending restarts included
MaxResults  == 2       \* results counted by one worker between two resets
MaxChunks   == 1       \* assistant texts buffered in one turn
MaxChats    == 2       \* Telegram chats that write to the bot
MaxMessages == 3       \* instructions the operator sends
MaxForwarded == 1      \* texts the bot forwards when any chat may write
MaxQueueSessions == 2  \* sessions the operator creates from Telegram

\* ------------------------------------------------------- program constants
PAIR_CODE_LENGTH         == 8
PAIR_CODE_EXPIRY_MS      == 5 * 60 * 1000
WS_HEARTBEAT_INTERVAL_MS == 30 * 1000
CODE_SPLIT               == 4     \* position of the dash, slice(0, 4)
TOKEN_PARTS              == 3     \* deviceId:deviceName:platform
NoPair                   == 0     \* pairId: null
NoSession                == 0     \* activeSessionId: null, close(): id undefined
FirstId                  == 1     \* nextId = 1
DefaultSessionId         == -1    \* sendToPhone: sessionId 'default'
NoProcess                == 0     \* ClaudeProcess.process: null
ErrorCode                == -1    \* handleProcessExit(-1) on the child's 'error'

\* --------------------------------------------------------------- alphabets
Chars == <<"A","B","C","D","E","F","G","H","J","K","L","M","N","P","Q","R",
           "S","T","U","V","W","X","Y","Z","2","3","4","5","6","7","8","9">>
UpperLetters == <<"A","B","C","D","E","F","G","H","I","J","K","L","M","N","O",
                  "P","Q","R","S","T","U","V","W","X","Y","Z">>
LowerLetters == <<"a","b","c","d","e","f","g","h","i","j","k","l","m","n","o",
                  "p","q","r","s","t","u","v","w","x","y","z">>
Digits == {"0","1","2","3","4","5","6","7","8","9"}

Platforms == {"desktop", "web"}
Devices   == {"D1", "P1"}
Sockets   == 1..MaxSockets
PairIds   == 1..MaxRooms

Range(s) == {s[i] : i \in DOMAIN s}

\* ------------------------------------------------------------ pure helpers
\* String.prototype.toUpperCase, one character
UpperChar(ch) ==
    IF \E i \in DOMAIN LowerLetters : LowerLetters[i] = ch
    THEN UpperLetters[CHOOSE i \in DOMAIN LowerLetters : LowerLetters[i] = ch]
    ELSE ch

ToUpperCase(s) == [i \in DOMAIN s |-> UpperChar(s[i])]

\* the character class [A-Z0-9]
IsUpperAlnum(ch) == ch \in Range(UpperLetters) \cup Digits

\* s.replace(/[^A-Z0-9]/g, '')
StripNonAlnum(s) == SelectSeq(s, IsUpperAlnum)

\* s.slice(from) and s.slice(0, to) on a sequence of characters
SliceTo(s, n)   == SubSeq(s, 1, IF n < Len(s) THEN n ELSE Len(s))
SliceFrom(s, n) == SubSeq(s, n + 1, Len(s))

NormalizedCode(pairCode) == StripNonAlnum(ToUpperCase(pairCode))

FormattedCode(pairCode) ==
    SliceTo(NormalizedCode(pairCode), CODE_SPLIT) \o <<"-">>
        \o SliceFrom(NormalizedCode(pairCode), CODE_SPLIT)

\* generatePairCode with the random draws given: picks[i] is the index drawn
\* for position i (1-based)
RECURSIVE GenFrom(_, _)
GenFrom(picks, i) ==
    IF i > PAIR_CODE_LENGTH THEN <<>>
    ELSE (IF i = CODE_SPLIT + 1 THEN <<"-">> ELSE <<>>)
            \o <<Chars[picks[i]]>> \o GenFrom(picks, i + 1)

generatePairCode(picks) == GenFrom(picks, 1)

\* ------------------------------------------------------------- pair codes
\* the draws of Math.random() the model lets generatePairCode make
RandomPicks == { <<1, 2, 3, 4, 5, 6, 7, 8>>, <<1, 2, 3, 4, 5, 6, 7, 25>> }
GenCodes    == { generatePairCode(p) : p \in RandomPicks }

\* the spellings of a code a user may type
ToLowerChar(ch) ==
    IF \E i \in DOMAIN UpperLetters : UpperLetters[i] = ch
    THEN LowerLetters[CHOOSE i \in DOMAIN UpperLetters : UpperLetters[i] = ch]
    ELSE ch
Lowered(s)   == [i \in DOMAIN s |-> ToLowerChar(s[i])]
Undashed(s)  == SelectSeq(s, LAMBDA ch : ch # "-")
Spaced(s)    == [i \in DOMAIN s |-> IF s[i] = "-" THEN " " ELSE s[i]]
Spellings(g) == { g, Lowered(g), Undashed(g), Undashed(Lowered(g)), Spaced(Lowered(g)) }
BogusCode    == <<"Z","Z","Z","Z","-","Z","Z","Z","Z">>
AllInputs    == UNION { Spellings(g) : g \in GenCodes } \cup { BogusCode }
TypedInputs  == GenCodes \cup { Undashed(Lowered(g)) : g \in GenCodes } \cup { BogusCode }

\* the key confirmPairCode looks up, for every input of the model
FormattedOf == [c \in AllInputs |-> FormattedCode(c)]


\* ------------------------------------------------------------------- state
VARIABLES
    sock,          \* readyState of each WebSocket object the hub has seen
    clients,       \* store.clients: Map deviceId -> ConnectedClient, in insertion order
    pendingPairs,  \* store.pendingPairs: Map pairCode -> PendingPair
    rooms,         \* store.rooms: Map pairId -> Room
    now,           \* Date.now()
    ticks,         \* how often the clock has been advanced
    last,          \* the step taken last: operation, inputs, return value
    sent,          \* the frames ws.send() put on the wire in that step, in order
    sessions,        \* SessionManager.sessions: Map id -> Session, in insertion order
    activeSessionId, \* SessionManager.activeSessionId
    nextId,          \* SessionManager.nextId
    workers,         \* the ClaudeProcess of every Session ever created, by session id
    sessionManager,  \* desktop agent: its SessionManager (sessions, activeSessionId) or null
    minted,          \* desktop agent: session ids generated so far
    agentWs,         \* desktop agent: readyState of its WebSocket
    authenticatedChats, \* Telegram bot: chat ids that gave the password
    pendingAuth,        \* Telegram bot: chat ids that were asked for it
    update,             \* Telegram bot: the update handled last and what it emitted
    messageQueue,       \* Telegram bridge: Bridge.messageQueue
    tasks,              \* Telegram bridge: async calls suspended at an await
    received            \* Telegram bridge: every 'message' event so far, in order:
                        \* its text, the session active then, its place in the
                        \* queue (0: not queued) and the session it was handed to

vars == <<sock, clients, pendingPairs, rooms, now, ticks, last, sent,
          sessions, activeSessionId, nextId, workers,
          sessionManager, minted, agentWs,
          authenticatedChats, pendingAuth, update, messageQueue, tasks, received>>
hubVars == <<sock, clients, pendingPairs, rooms, now, ticks>>
mgrVars == <<sessions, activeSessionId, nextId>>
bridgeVars == <<mgrVars, workers>>
agentVars == <<sessionManager, minted, agentWs>>
botVars == <<authenticatedChats, pendingAuth, update>>
queueVars == <<messageQueue, tasks, received>>
chatVars == <<botVars, queueVars>>

\* ------------------------------------------------------- the Map of clients
MapHas(m, k)    == \E i \in DOMAIN m : m[i].deviceId = k
MapIdx(m, k)    == CHOOSE i \in DOMAIN m : m[i].deviceId = k
MapGet(m, k)    == m[MapIdx(m, k)]
MapSet(m, k, v) == IF MapHas(m, k) THEN [m EXCEPT ![MapIdx(m, k)] = v] ELSE Append(m, v)
MapKeep(m, k) == m
MapDelete(m, k) == SelectSeq(m, LAMBDA c : c.deviceId # k)

\* findClientByWs: the first entry, in iteration order, whose ws is this socket
HasClientByWs(m, ws) == \E i \in DOMAIN m : m[i].ws = ws
FindIdxByWs(m, ws) ==
    CHOOSE i \in DOMAIN m : m[i].ws = ws /\ \A j \in DOMAIN m : m[j].ws = ws => i <= j
findClientByWs(m, ws) == m[FindIdxByWs(m, ws)]

\* ----------------------------------------------------------------- sockets
\* ws.close(): an open socket starts its closing handshake
WsClose(sk, ws) == IF sk[ws] = "OPEN" THEN [sk EXCEPT ![ws] = "CLOSING"] ELSE sk

\* frames still arrive on a socket until its close event has fired
CanReceive(ws) == sock[ws] \in {"OPEN", "CLOSING"}

\* JSON.stringify / JSON.parse of a frame: the wire text carries the value in
\* some spelling (here: with or without insignificant white space); parsing
\* forgets the spelling and stringify always writes the compact one
JSONStringify(v) == [type |-> v.type, arg |-> v.arg, spaced |-> FALSE]
JSONParse(text)  == [type |-> text.type, arg |-> text.arg]

Msg(t, a) == [type |-> t, arg |-> a]

\* sendMessage(ws, message): appended to the step's output when ws is OPEN
sendMessage(out, sk, ws, message) ==
    IF sk[ws] = "OPEN"
    THEN Append(out, [to |-> ws, data |-> JSONStringify(message)])
    ELSE out

\* ---------------------------------------------------------- PairingService
\* getPairedDevice(deviceId), on the maps given
getPairedDevice(cl, rm, deviceId) ==
    IF ~MapHas(cl, deviceId) THEN "null"
    ELSE IF MapGet(cl, deviceId).pairId = NoPair THEN "null"
    ELSE IF MapGet(cl, deviceId).pairId \notin DOMAIN rm THEN "null"
    ELSE IF rm[MapGet(cl, deviceId).pairId].desktopDeviceId = deviceId
         THEN rm[MapGet(cl, deviceId).pairId].webDeviceId
         ELSE rm[MapGet(cl, deviceId).pairId].desktopDeviceId

\* the pending pairs left after the loop that deletes those of deviceId
WithoutDevice(pp, deviceId) ==
    [c \in {k \in DOMAIN pp : pp[k].deviceId # deviceId} |-> pp[c]]

\* cleanupExpiredPairs at time t
cleanupExpiredPairs(pp, t) ==
    [c \in {k \in DOMAIN pp : ~(t > pp[k].expiresAt)} |-> pp[c]]

MapPut(f, k, v) == [x \in DOMAIN f \cup {k} |-> IF x = k THEN v ELSE f[x]]
MapRemove(f, k) == [x \in DOMAIN f \ {k} |-> f[x]]


\* Date.now() > pendingPair.expiresAt
ExpiredAtOrAfter(t, pair) == t >= pair.expiresAt
Expired(t, pair) == t > pair.expiresAt

\* uuidv4(): an id no room has
NextPairId == Cardinality(DOMAIN rooms) + 1

\* client.pairId = pairId on the entry of deviceId, when there is one
SetPairId(cl, deviceId, pairId) ==
    IF MapHas(cl, deviceId)
    THEN [cl EXCEPT ![MapIdx(cl, deviceId)].pairId = pairId]
    ELSE cl

\* the Room of a successful confirm: the devices slotted by the confirmer's platform
RoomSwapped(pairId, pending, deviceId, platform) ==
    [pairId          |-> pairId,
     desktopDeviceId |-> IF platform = "web" THEN deviceId ELSE pending.deviceId,
     webDeviceId     |-> IF platform = "web" THEN pending.deviceId ELSE deviceId,
     createdAt       |-> now]
NewRoom(pairId, pending, deviceId, platform) ==
    [pairId          |-> pairId,
     desktopDeviceId |-> IF platform = "web" THEN pending.deviceId ELSE deviceId,
     webDeviceId     |-> IF platform = "web" THEN deviceId ELSE pending.deviceId,
     createdAt       |-> now]

\* what PairingService.confirmPairCode returns and leaves in the store
Outcome(res, pid, pp, rm, cl) ==
    [result |-> res, pairId |-> pid, pendingPairs |-> pp, rooms |-> rm, clients |-> cl]

\* pending.platform === platform
AnyTypes(pending, platform) == FALSE
SameTypes(pending, platform) == pending.platform = platform

ConfirmFound(fc, deviceId, platform) ==
    IF Expired(now, pendingPairs[fc])
    THEN Outcome("Pair code expired", NoPair, MapRemove(pendingPairs, fc), rooms, clients)
    ELSE IF SameTypes(pendingPairs[fc], platform)
    THEN Outcome("Cannot pair same device types", NoPair, pendingPairs, rooms, clients)
    ELSE Outcome("success", NextPairId,
                 MapRemove(pendingPairs, fc),
                 MapPut(rooms, NextPairId,
                        NewRoom(NextPairId, pendingPairs[fc], deviceId, platform)),
                 SetPairId(SetPairId(clients, pendingPairs[fc].deviceId, NextPairId),
                           deviceId, NextPairId))

LookupRaw(pairCode) == pairCode
LookupCode(pairCode) == FormattedOf[pairCode]

PairingConfirm(pairCode, deviceId, platform) ==
    IF LookupCode(pairCode) \notin DOMAIN pendingPairs
    THEN Outcome("Invalid pair code", NoPair, pendingPairs, rooms, clients)
    ELSE ConfirmFound(LookupCode(pairCode), deviceId, platform)

\* RelayServer.confirmPairCode: the frames it sends after a successful confirm
RECURSIVE NotifyLoop(_, _, _, _)
NotifyLoop(out, ids, cl, pairId) ==
    IF ids = <<>> THEN out
    ELSE NotifyLoop(IF MapHas(cl, Head(ids))
                    THEN sendMessage(out, sock, MapGet(cl, Head(ids)).ws, Msg("paired", pairId))
                    ELSE out,
                    Tail(ids), cl, pairId)

NotifyNone(o) == <<>>
NotifyPaired(o) ==
    IF o.result = "success" /\ o.pairId \in DOMAIN o.rooms
    THEN NotifyLoop(<<>>, <<o.rooms[o.pairId].desktopDeviceId,
                            o.rooms[o.pairId].webDeviceId>>, o.clients, o.pairId)
    ELSE <<>>

\* ----------------------------------------------------------------- history
NoPending == [pairCode |-> <<>>, deviceId |-> "", platform |-> "", expiresAt |-> 0]
NoLast ==
    [op |-> "init", ws |-> 0, dev |-> "", platform |-> "", code |-> <<>>,
     result |-> "", pairId |-> NoPair, pre |-> NoPending, prev |-> {}, frame |-> <<>>,
     id |-> NoSession, removed |-> 0, dir |-> <<>>, emitted |-> <<>>,
     child |-> NoProcess]

\* the Telegram bot before its first update
NoUpdate == [chatId |-> 0, text |-> "", emitted |-> <<>>, reply |-> ""]

\* the desktop agent before initSessionManager: sessionManager = null
NullManager == [exists |-> FALSE, sessions |-> <<>>, activeSessionId |-> NoSession]

\* ----------------------------------------------------------------- actions
Init ==
    /\ sock = [w \in Sockets |-> "NONE"]
    /\ clients = <<>>
    /\ pendingPairs = <<>>
    /\ rooms = <<>>
    /\ now = 0
    /\ ticks = 0
    /\ last = NoLast
    /\ sent = <<>>
    /\ sessions = <<>>
    /\ activeSessionId = NoSession
    /\ nextId = FirstId
    /\ workers = <<>>
    /\ sessionManager = NullManager
    /\ minted = 0
    /\ agentWs = "OPEN"
    /\ authenticatedChats = {}
    /\ pendingAuth = {}
    /\ update = NoUpdate
    /\ messageQueue = <<>>
    /\ tasks = {}
    /\ received = <<>>

\* time passes
Tick(dt) ==
    /\ ticks < MaxTicks
    /\ now' = now + dt
    /\ ticks' = ticks + 1
    /\ last' = [NoLast EXCEPT !.op = "tick"]
    /\ sent' = <<>>
    /\ UNCHANGED <<sock, clients, pendingPairs, rooms>>
    /\ UNCHANGED <<bridgeVars, agentVars, chatVars>>

\* POST /api/pair/request -> RelayServer.requestPairCode -> PairingService.requestPairCode;
\* pairCode is what generatePairCode() returned
RequestPairCode(deviceId, platform, pairCode) ==
    /\ pendingPairs' =
          MapPut(WithoutDevice(pendingPairs, deviceId), pairCode,
                 [pairCode  |-> pairCode,
                  deviceId  |-> deviceId,
                  platform  |-> platform,
                  expiresAt |-> now + PAIR_CODE_EXPIRY_MS])
    /\ last' = [NoLast EXCEPT
                  !.op = "request", !.dev = deviceId, !.platform = platform,
                  !.code = pairCode, !.result = "success",
                  !.pre = IF pairCode \in DOMAIN pendingPairs
                          THEN pendingPairs[pairCode] ELSE NoPending,
                  !.prev = {c \in DOMAIN pendingPairs : pendingPairs[c].deviceId = deviceId}]
    /\ sent' = <<>>
    /\ UNCHANGED <<sock, clients, rooms, now, ticks>>
    /\ UNCHANGED <<bridgeVars, agentVars, chatVars>>

\* RelayServer.confirmPairCode(pairCode, deviceId, deviceName, platform), which
\* POST /api/pair/confirm calls with platform 'web'
ConfirmPairCode(pairCode, deviceId, platform) ==
    LET o == PairingConfirm(pairCode, deviceId, platform) IN
    /\ o.result = "success" => o.pairId <= MaxRooms
    /\ pendingPairs' = o.pendingPairs
    /\ rooms' = o.rooms
    /\ clients' = o.clients
    /\ sent' = NotifyPaired(o)
    /\ last' = [NoLast EXCEPT
                  !.op = "confirm", !.dev = deviceId, !.platform = platform,
                  !.code = pairCode, !.result = o.result, !.pairId = o.pairId,
                  !.pre = IF LookupCode(pairCode) \in DOMAIN pendingPairs
                          THEN pendingPairs[LookupCode(pairCode)] ELSE NoPending]
    /\ UNCHANGED <<sock, now, ticks>>
    /\ UNCHANGED <<bridgeVars, agentVars, chatVars>>


\* the frames a client may put on a socket
SessionTypes ==
    { "session_list", "session_create", "session_created", "session_switch",
      "session_switched", "session_delete", "session_deleted", "session_error" }
Text(t, a, sp) == [type |-> t, arg |-> a, spaced |-> sp]
MessageFrames == { Text("message", "hello", FALSE), Text("message", "hello", TRUE) }
SessionFrames == { Text("session_list", "s1", FALSE) }

\* wss.on('connection'): the hub accepts the next WebSocket
Connection(ws) ==
    /\ sock[ws] = "NONE"
    /\ \A w \in Sockets : w < ws => sock[w] # "NONE"
    /\ sock' = [sock EXCEPT ![ws] = "OPEN"]
    /\ last' = [NoLast EXCEPT !.op = "connection", !.ws = ws]
    /\ sent' = <<>>
    /\ UNCHANGED <<clients, pendingPairs, rooms, now, ticks>>
    /\ UNCHANGED <<bridgeVars, agentVars, chatVars>>

\* wss.on('connection') for a later WebSocket: a closed socket no Connection
\* refers to any more is gone, and its place is taken by the new one
Reconnection(ws) ==
    /\ sock[ws] = "CLOSED"
    /\ ~HasClientByWs(clients, ws)
    /\ sock' = [sock EXCEPT ![ws] = "OPEN"]
    /\ last' = [NoLast EXCEPT !.op = "connection", !.ws = ws]
    /\ sent' = <<>>
    /\ UNCHANGED <<clients, pendingPairs, rooms, now, ticks>>
    /\ UNCHANGED <<bridgeVars, agentVars, chatVars>>

NewClient(ws, deviceId, platform) ==
    [ws |-> ws, deviceId |-> deviceId, platform |-> platform,
     pairId |-> NoPair, lastPing |-> now]

\* the readyStates after handleAuth has closed the socket already registered
\* for deviceId, if any
KeepExisting(deviceId) == sock
CloseExisting(deviceId) ==
    IF MapHas(clients, deviceId) THEN WsClose(sock, MapGet(clients, deviceId).ws) ELSE sock

\* a registry that keeps one Connection per socket instead of one per device
RegisterBeside(ws, deviceId, platform) ==
    Append(clients, NewClient(ws, deviceId, platform))

\* the registry after handleAuth has accepted the token
Register(ws, deviceId, platform) ==
    MapSet(clients, deviceId, NewClient(ws, deviceId, platform))

AuthLax(token) ==
    IF Len(token) < TOKEN_PARTS THEN "Invalid token format" ELSE "success"
AuthResult(token) ==
    IF Len(token) < TOKEN_PARTS THEN "Invalid token format"
    ELSE IF token[3] \notin {"desktop", "web"} THEN "Invalid platform"
    ELSE "success"

\* case 'auth': handleAuth(ws, token); the token is given split at its colons
HandleAuth(ws, token) ==
    /\ CanReceive(ws)
    /\ IF AuthResult(token) # "success"
       THEN /\ sent' = sendMessage(<<>>, sock, ws, Msg("auth_error", AuthResult(token)))
            /\ UNCHANGED <<sock, clients>>
       ELSE /\ sock' = CloseExisting(token[1])
            /\ clients' = Register(ws, token[1], token[3])
            /\ sent' = sendMessage(<<>>, CloseExisting(token[1]), ws,
                                   Msg("auth_success", token[1]))
    /\ last' = [NoLast EXCEPT
                  !.op = "auth", !.ws = ws, !.dev = token[1], !.frame = token,
                  !.platform = IF Len(token) >= 3 THEN token[3] ELSE "",
                  !.result = AuthResult(token),
                  !.prev = IF MapHas(clients, token[1])
                           THEN {MapGet(clients, token[1]).ws} ELSE {}]
    /\ UNCHANGED <<pendingPairs, rooms, now, ticks>>
    /\ UNCHANGED <<bridgeVars, agentVars, chatVars>>

\* case 'ping': handlePing(ws)
HandlePing(ws) ==
    /\ CanReceive(ws)
    /\ clients' = IF HasClientByWs(clients, ws)
                  THEN [clients EXCEPT ![FindIdxByWs(clients, ws)].lastPing = now]
                  ELSE clients
    /\ sent' = sendMessage(<<>>, sock, ws, Msg("pong", ""))
    /\ last' = [NoLast EXCEPT !.op = "ping", !.ws = ws]
    /\ UNCHANGED <<sock, pendingPairs, rooms, now, ticks>>
    /\ UNCHANGED <<bridgeVars, agentVars, chatVars>>

RejoinLax(ws, pairId) ==
    IF ~HasClientByWs(clients, ws) THEN "Not authenticated"
    ELSE IF pairId \notin DOMAIN rooms THEN "Room not found"
    ELSE "success"
RejoinResult(ws, pairId) ==
    IF ~HasClientByWs(clients, ws) THEN "Not authenticated"
    ELSE IF pairId \notin DOMAIN rooms THEN "Room not found"
    ELSE IF rooms[pairId].desktopDeviceId # findClientByWs(clients, ws).deviceId
            /\ rooms[pairId].webDeviceId # findClientByWs(clients, ws).deviceId
    THEN "Device not in room"
    ELSE "success"

\* the other device of the room, seen from the rejoining client
RejoinSelf(ws, pairId) == findClientByWs(clients, ws).deviceId
RejoinPeer(ws, pairId) ==
    IF rooms[pairId].desktopDeviceId = findClientByWs(clients, ws).deviceId
    THEN rooms[pairId].webDeviceId
    ELSE rooms[pairId].desktopDeviceId

\* client.pairId = pairId on the Connection found for ws
RebindLast(cl, ws, pairId) ==
    Append(SelectSeq(cl, LAMBDA c : c # findClientByWs(cl, ws)),
           [findClientByWs(cl, ws) EXCEPT !.pairId = pairId])
Rebind(cl, ws, pairId) ==
    [cl EXCEPT ![FindIdxByWs(cl, ws)].pairId = pairId]

\* case 'rejoin': handleRejoin(ws, pairId)
HandleRejoin(ws, pairId) ==
    /\ CanReceive(ws)
    /\ IF RejoinResult(ws, pairId) # "success"
       THEN /\ sent' = sendMessage(<<>>, sock, ws,
                                   Msg("rejoin_failed", RejoinResult(ws, pairId)))
            /\ UNCHANGED clients
       ELSE LET cl == Rebind(clients, ws, pairId)
                peer == RejoinPeer(ws, pairId)
            IN  /\ clients' = cl
                /\ sent' =
                     IF MapHas(cl, peer) /\ MapGet(cl, peer).pairId = pairId
                     THEN sendMessage(sendMessage(<<>>, sock, ws, Msg("paired", pairId)),
                                      sock, MapGet(cl, peer).ws, Msg("paired", pairId))
                     ELSE sendMessage(<<>>, sock, ws, Msg("rejoin_success", pairId))
    /\ last' = [NoLast EXCEPT !.op = "rejoin", !.ws = ws, !.pairId = pairId,
                              !.result = RejoinResult(ws, pairId),
                              !.prev = IF HasClientByWs(clients, ws)
                                       THEN {findClientByWs(clients, ws).pairId} ELSE {}]
    /\ UNCHANGED <<sock, pendingPairs, rooms, now, ticks>>
    /\ UNCHANGED <<bridgeVars, agentVars, chatVars>>

\* what handleRelayMessage / handleRelaySessionMessage decide for a sender
RelayResult(ws) ==
    IF ~HasClientByWs(clients, ws) THEN "Not authenticated"
    ELSE IF findClientByWs(clients, ws).pairId = NoPair THEN "Not paired"
    ELSE IF getPairedDevice(clients, rooms, findClientByWs(clients, ws).deviceId) = "null"
    THEN "Paired device not found"
    ELSE IF ~MapHas(clients,
                    getPairedDevice(clients, rooms, findClientByWs(clients, ws).deviceId))
    THEN "Paired device offline"
    ELSE "relay"

RelayTarget(ws) ==
    MapGet(clients, getPairedDevice(clients, rooms, findClientByWs(clients, ws).deviceId)).ws

RelayTwice(ws, message) ==
    sendMessage(sendMessage(<<>>, sock, RelayTarget(ws), message),
                sock, RelayTarget(ws), message)
RelayToPeer(ws, message) == sendMessage(<<>>, sock, RelayTarget(ws), message)

\* case 'message': handleRelayMessage(ws, message)
HandleRelayMessage(ws, text) ==
    /\ CanReceive(ws)
    /\ JSONParse(text).type = "message"
    /\ sent' = IF RelayResult(ws) = "relay"
               THEN RelayToPeer(ws, JSONParse(text))
               ELSE sendMessage(<<>>, sock, ws, Msg("error", RelayResult(ws)))
    /\ last' = [NoLast EXCEPT !.op = "message", !.ws = ws, !.frame = text,
                              !.result = RelayResult(ws)]
    /\ UNCHANGED <<sock, clients, pendingPairs, rooms, now, ticks>>
    /\ UNCHANGED <<bridgeVars, agentVars, chatVars>>

\* case 'session_*': handleRelaySessionMessage(ws, message)
HandleRelaySessionMessage(ws, text) ==
    /\ CanReceive(ws)
    /\ JSONParse(text).type \in SessionTypes
    /\ sent' = IF RelayResult(ws) = "relay"
               THEN RelayToPeer(ws, JSONParse(text))
               ELSE IF RelayResult(ws) \in {"Not authenticated", "Not paired"}
               THEN sendMessage(<<>>, sock, ws, Msg("error", RelayResult(ws)))
               ELSE <<>>
    /\ last' = [NoLast EXCEPT !.op = "session", !.ws = ws, !.frame = text,
                              !.result = RelayResult(ws)]
    /\ UNCHANGED <<sock, clients, pendingPairs, rooms, now, ticks>>
    /\ UNCHANGED <<bridgeVars, agentVars, chatVars>>

\* ws.on('close'): handleDisconnect(ws)
HandleDisconnect(ws) ==
    /\ CanReceive(ws)
    /\ sock' = [sock EXCEPT ![ws] = "CLOSED"]
    /\ IF ~HasClientByWs(clients, ws)
       THEN /\ sent' = <<>>
            /\ UNCHANGED clients
       ELSE LET client == findClientByWs(clients, ws)
                peer   == getPairedDevice(clients, rooms, client.deviceId)
            IN  /\ sent' = IF client.pairId # NoPair /\ peer # "null" /\ MapHas(clients, peer)
                           THEN sendMessage(<<>>, sock', MapGet(clients, peer).ws,
                                            Msg("peer_offline", ""))
                           ELSE <<>>
                /\ clients' = MapDelete(clients, client.deviceId)
    /\ last' = [NoLast EXCEPT !.op = "close", !.ws = ws, !.result = sock[ws],
                  !.dev = IF HasClientByWs(clients, ws)
                          THEN findClientByWs(clients, ws).deviceId ELSE ""]
    /\ UNCHANGED <<pendingPairs, rooms, now, ticks>>
    /\ UNCHANGED <<bridgeVars, agentVars, chatVars>>

\* the heartbeat timer fires
StaleAtOrAfter(c) == now - c.lastPing >= WS_HEARTBEAT_INTERVAL_MS * 2
Stale(c) == now - c.lastPing > WS_HEARTBEAT_INTERVAL_MS * 2
Heartbeat ==
    /\ sock' = [w \in Sockets |->
                  IF \E i \in DOMAIN clients : clients[i].ws = w /\ Stale(clients[i])
                  THEN WsClose(sock, w)[w] ELSE sock[w]]
    /\ clients' = SelectSeq(clients, LAMBDA c : ~Stale(c))
    /\ pendingPairs' = cleanupExpiredPairs(pendingPairs, now)
    /\ last' = [NoLast EXCEPT !.op = "heartbeat",
                              !.removed = Cardinality(DOMAIN pendingPairs)
                                           - Cardinality(DOMAIN cleanupExpiredPairs(pendingPairs, now)),
                              !.prev = {clients[i] : i \in {j \in DOMAIN clients : Stale(clients[j])}}]
    /\ sent' = <<>>
    /\ UNCHANGED <<rooms, now, ticks>>
    /\ UNCHANGED <<bridgeVars, agentVars, chatVars>>

\* ---------------------------------------------------------- specifications
\* The hub is checked in four environments, each the operations one group of
\* properties speaks about, with inputs drawn from the sets below.
ValidTokens == { <<"D1", "name", "desktop">>, <<"P1", "name", "web">> }
FixedTokens == ValidTokens \cup { <<"D1">>, <<"D1", "name", "mobile">> }
G0          == generatePairCode(<<1, 2, 3, 4, 5, 6, 7, 8>>)
RegSteps    == { 2 * WS_HEARTBEAT_INTERVAL_MS, 2 * WS_HEARTBEAT_INTERVAL_MS + 1 }
PairSteps   == { PAIR_CODE_EXPIRY_MS, PAIR_CODE_EXPIRY_MS + 1 }

\* the connection registry: auth, ping, close, reaper
RegistryNext ==
    \/ \E ws \in Sockets : Connection(ws)
    \/ \E ws \in Sockets, token \in FixedTokens : HandleAuth(ws, token)
    \/ \E ws \in Sockets : HandlePing(ws)
    \/ \E ws \in Sockets : HandleDisconnect(ws)
    \/ Heartbeat
    \/ \E dt \in RegSteps : Tick(dt)
RegistrySpec == Init /\ [][RegistryNext]_vars

\* the pairing store alone: requests and confirms of any device in any role
PairingNext ==
    \/ \E d \in Devices, p \in Platforms, g \in GenCodes : RequestPairCode(d, p, g)
    \/ \E c \in TypedInputs, d \in Devices, p \in Platforms : ConfirmPairCode(c, d, p)
PairingSpec == Init /\ [][PairingNext]_vars

\* pairing with the peers connected and the clock running: the desktop D1
\* requests a code, the phone P1 confirms issued and unissued codes in either role
ExpiryNext ==
    \/ \E ws \in Sockets : Connection(ws)
    \/ HandleAuth(1, <<"D1", "name", "desktop">>)
    \/ HandleAuth(2, <<"P1", "name", "web">>)
    \/ RequestPairCode("D1", "desktop", G0)
    \/ \E c \in GenCodes, p \in Platforms : ConfirmPairCode(c, "P1", p)
    \/ \E dt \in PairSteps : Tick(dt)
ExpirySpec == Init /\ [][ExpiryNext]_vars

\* the relay between the peers of a room: D1 requests, P1 confirms, either
\* device may appear on any socket
RelayNext ==
    \/ \E ws \in Sockets : Connection(ws)
    \/ \E ws \in Sockets, token \in ValidTokens : HandleAuth(ws, token)
    \/ \E ws \in Sockets, pairId \in PairIds : HandleRejoin(ws, pairId)
    \/ \E ws \in Sockets, text \in MessageFrames : HandleRelayMessage(ws, text)
    \/ \E ws \in Sockets, text \in SessionFrames : HandleRelaySessionMessage(ws, text)
    \/ \E ws \in Sockets : HandleDisconnect(ws)
    \/ RequestPairCode("D1", "desktop", G0)
    \/ ConfirmPairCode(G0, "P1", "web")
RelaySpec == Init /\ [][RelayNext]_vars

\* presence: the desktop D1 (first socket) and the phone P1 (second socket)
\* pair once (no code is requested once the room exists), rejoin, go away,
\* come back on later sockets and are reaped
PresenceNext ==
    \/ \E ws \in Sockets : Connection(ws)
    \/ \E ws \in Sockets : Reconnection(ws)
    \/ HandleAuth(1, <<"D1", "name", "desktop">>)
    \/ HandleAuth(2, <<"P1", "name", "web">>)
    \/ \E ws \in Sockets, pairId \in PairIds : HandleRejoin(ws, pairId)
    \/ \E ws \in Sockets : HandleDisconnect(ws)
    \/ Heartbeat
    \/ rooms = <<>> /\ RequestPairCode("D1", "desktop", G0)
    \/ ConfirmPairCode(G0, "P1", "web")
    \/ \E dt \in RegSteps : Tick(dt)
PresenceSpec == Init /\ [][PresenceNext]_vars

\* rejoin: D1 (first socket), P1 and a device that is in no room (second
\* socket) on sockets that come and go; D1 requests, P1 confirms
OutsiderToken == <<"X1", "name", "web">>
RejoinNext ==
    \/ \E ws \in Sockets : Connection(ws)
    \/ \E ws \in Sockets : Reconnection(ws)
    \/ HandleAuth(1, <<"D1", "name", "desktop">>)
    \/ \E token \in {<<"P1", "name", "web">>, OutsiderToken} : HandleAuth(2, token)
    \/ \E ws \in Sockets, pairId \in PairIds : HandleRejoin(ws, pairId)
    \/ \E ws \in Sockets : HandleDisconnect(ws)
    \/ RequestPairCode("D1", "desktop", G0)
    \/ ConfirmPairCode(G0, "P1", "web")
RejoinSpec == Init /\ [][RejoinNext]_vars

\* the reaper: D1 (first socket) and P1 (second socket) authenticate and ping,
\* the clock steps to either side of the staleness and of the expiry
\* threshold, D1 requests codes, P1 confirms the first and then requests codes
\* of its own
ReaperSteps == RegSteps \cup PairSteps
ReaperNext ==
    \/ \E ws \in Sockets : Connection(ws)
    \/ HandleAuth(1, <<"D1", "name", "desktop">>)
    \/ HandleAuth(2, <<"P1", "name", "web">>)
    \/ \E ws \in Sockets : HandlePing(ws)
    \/ Heartbeat
    \/ RequestPairCode("D1", "desktop", G0)
    \/ rooms # <<>> /\ \E g \in GenCodes \ {G0} : RequestPairCode("P1", "web", g)
    \/ rooms = <<>> /\ ConfirmPairCode(G0, "P1", "web")
    \/ \E dt \in ReaperSteps : Tick(dt)
ReaperSpec == Init /\ [][ReaperNext]_vars

\* the close event of a socket that is closing is eventually delivered
PresenceFairSpec ==
    PresenceSpec /\ \A ws \in Sockets : WF_vars(sock[ws] = "CLOSING" /\ HandleDisconnect(ws))

\* -------------------------------------------------------------------- paths
\* A path is the sequence of its characters.  path.resolve, path.isAbsolute
\* and path.basename are those of Node's POSIX path module; process.cwd() is
\* the directory the agent was started in.
sep == "/"
cwd == <<"/", "p">>

RECURSIVE SplitAcc(_, _, _, _)
SplitAcc(p, i, cur, acc) ==
    IF i > Len(p) THEN Append(acc, cur)
    ELSE IF p[i] = sep THEN SplitAcc(p, i + 1, <<>>, Append(acc, cur))
         ELSE SplitAcc(p, i + 1, Append(cur, p[i]), acc)
\* p.split('/')
Split(p) == SplitAcc(p, 1, <<>>, <<>>)

\* normalizeString of an absolute path: empty and "." segments are skipped,
\* ".." drops the segment before it (and is dropped at the root)
RECURSIVE NormalizeAcc(_, _, _)
NormalizeAcc(segs, i, acc) ==
    IF i > Len(segs) THEN acc
    ELSE IF segs[i] = <<>> \/ segs[i] = <<".">> THEN NormalizeAcc(segs, i + 1, acc)
         ELSE IF segs[i] = <<".", ".">>
              THEN NormalizeAcc(segs, i + 1,
                                IF acc = <<>> THEN acc ELSE SubSeq(acc, 1, Len(acc) - 1))
              ELSE NormalizeAcc(segs, i + 1, Append(acc, segs[i]))

RECURSIVE JoinAcc(_, _, _)
JoinAcc(segs, i, acc) ==
    IF i > Len(segs) THEN acc
    ELSE JoinAcc(segs, i + 1, acc \o <<sep>> \o segs[i])
\* '/' + segments.join('/')
Join(segs) == IF segs = <<>> THEN <<sep>> ELSE JoinAcc(segs, 1, <<>>)

isAbsolute(p) == Len(p) > 0 /\ p[1] = sep

\* path.resolve(...args): the arguments are taken from the right until an
\* absolute one is found, process.cwd() standing before the first; empty
\* arguments are skipped; the result is normalized
RECURSIVE ResolveAcc(_, _, _)
ResolveAcc(args, i, acc) ==
    IF i = 0 THEN cwd \o <<sep>> \o acc
    ELSE IF args[i] = <<>> THEN ResolveAcc(args, i - 1, acc)
         ELSE IF isAbsolute(args[i]) THEN args[i] \o <<sep>> \o acc
              ELSE ResolveAcc(args, i - 1, args[i] \o <<sep>> \o acc)
PathResolve(args) == Join(NormalizeAcc(Split(ResolveAcc(args, Len(args), <<>>)), 1, <<>>))

\* the directories a frame or a command line names (none: the empty path)
DirInputs ==
    { <<>>, <<"/", "p">>, <<"/", "p", "/", "x">>, <<"/", "p", "e">>, <<"/", "e">>,
      <<"/", "p", "/", ".", ".", "/", "e">>, <<"/", "p", "/", "x", "/", ".", ".">>,
      <<"/", "p", "/", "y">>, <<"x">>, <<"/", "q">>, <<"/", "q", "/">>, <<"/">> }
\* path.resolve(p), worked out once for the directories above
Resolved == [p \in DirInputs |-> PathResolve(<<p>>)]
resolve(p) == IF p \in DirInputs THEN Resolved[p] ELSE PathResolve(<<p>>)

\* path.basename(p): the last segment, trailing separators put aside
basename(p) ==
    LET segs == SelectSeq(Split(p), LAMBDA g : g # <<>>)
    IN  IF segs = <<>> THEN <<>> ELSE segs[Len(segs)]

\* s.startsWith(prefix)
startsWith(s, prefix) ==
    Len(prefix) <= Len(s) /\ SubSeq(s, 1, Len(prefix)) = prefix

\* isDirectoryAllowed with a prefix test that leaves the separator out
AllowedNoSep(allowedDirectories, targetDir) ==
    \E i \in DOMAIN allowedDirectories :
        \/ resolve(targetDir) = resolve(allowedDirectories[i])
        \/ startsWith(resolve(targetDir), resolve(allowedDirectories[i]))
\* SessionManager.isDirectoryAllowed, ClaudeService.isDirectoryAllowed
isDirectoryAllowed(allowedDirectories, targetDir) ==
    \E i \in DOMAIN allowedDirectories :
        \/ resolve(targetDir) = resolve(allowedDirectories[i])
        \/ startsWith(resolve(targetDir), resolve(allowedDirectories[i]) \o <<sep>>)

\* ------------------------------------------------------------ session worker
\* ClaudeProcess, the persistent worker of one Session.  `children` lists every
\* child the worker has spawned: "running" until it is killed ("killed": the
\* signal is sent, its 'close' event is still to come), fails ("errored": its
\* 'error' event was delivered, a 'close' may follow) or its 'close' event is
\* delivered ("closed"); `pending` counts the user messages written to its
\* stdin and not yet answered.  `process` is the index of the child the worker
\* holds, `timers` the setTimeout callbacks not yet run.  currentResponse is
\* the sequence of texts appended to it: empty is the falsy "".
createEmptySessionInfo ==
    [messageCount |-> 0, totalInputTokens |-> 0, totalOutputTokens |-> 0,
     totalCostUsd |-> 0]

NewChild == [state |-> "running", pending |-> 0]

\* new ClaudeProcess(config)
ClaudeProcess ==
    [process |-> NoProcess, isRunning |-> FALSE, isBusy |-> FALSE,
     currentResponse |-> <<>>, sessionInfo |-> createEmptySessionInfo,
     children |-> <<>>, timers |-> [restart |-> 0, auto |-> 0]]

Event(name, subtype) == [name |-> name, subtype |-> subtype]
Returns(w, emitted) == [w |-> w, emitted |-> emitted]

\* resetSessionInfo: the counters of createEmptySessionInfo (startTime is read
\* by no operation modelled here)
resetSessionInfo(w) == [w EXCEPT !.sessionInfo = createEmptySessionInfo]

\* ClaudeProcess.start
start(w) ==
    IF w.process # NoProcess
    THEN Returns(w, <<>>)
    ELSE Returns([resetSessionInfo(w) EXCEPT
                     !.children = Append(@, NewChild),
                     !.process = Len(w.children) + 1,
                     !.isRunning = TRUE],
                 <<Event("ready", "")>>)

\* updateSessionStats
updateSessionStats(w, msg) ==
    [w EXCEPT !.sessionInfo =
        [messageCount |-> @.messageCount + 1,
         totalCostUsd |-> IF msg.total_cost_usd # 0 THEN msg.total_cost_usd
                          ELSE @.totalCostUsd,
         totalInputTokens |-> @.totalInputTokens + msg.usage.input_tokens,
         totalOutputTokens |-> @.totalOutputTokens + msg.usage.output_tokens]]

\* emitResponse: the events it emits
emitResponse(w, msg) ==
    IF w.currentResponse # <<>> \/ msg.result # ""
    THEN <<Event("message", IF msg.subtype # "" THEN msg.subtype ELSE "success")>>
    ELSE <<>>

\* handleStreamMessage, case 'assistant'
StreamAssistantText(w, text) == [w EXCEPT !.currentResponse = Append(@, text)]

\* handleStreamMessage, case 'result'
StreamResultMessage(w, msg) ==
    Returns([updateSessionStats(w, msg) EXCEPT !.currentResponse = <<>>,
                                               !.isBusy = FALSE],
            emitResponse(w, msg) \o <<Event("done", "")>>)

\* a handleProcessExit that reports nothing and restarts nothing
ExitUnreported(w, code) ==
    Returns([w EXCEPT !.process = NoProcess, !.isRunning = FALSE, !.isBusy = FALSE],
            <<>>)

\* handleProcessExit
handleProcessExit(w, code) ==
    Returns([w EXCEPT !.process = NoProcess, !.isRunning = FALSE, !.isBusy = FALSE,
                      !.currentResponse = <<>>,
                      !.timers.auto = @ + 1],
            (IF w.currentResponse # <<>> THEN <<Event("message", "error")>> ELSE <<>>)
               \o <<Event("exit", "")>>)

\* ClaudeProcess.sendMessage: what it throws, "" when it returns
ProcessSendResult(w) ==
    IF w.process = NoProcess \/ ~w.isRunning THEN "not running"
    ELSE IF w.isBusy THEN "busy"
    ELSE ""

\* ClaudeProcess.sendMessage: the worker afterwards
ProcessSendMessage(w, text) ==
    IF ProcessSendResult(w) # "" THEN w
    ELSE [w EXCEPT !.isBusy = TRUE, !.currentResponse = <<>>,
                   !.children[w.process].pending = @ + 1]

\* ClaudeProcess.stop
stop(w) ==
    [w EXCEPT !.children = IF w.process # NoProcess
                           THEN [@ EXCEPT ![w.process].state = "killed"] ELSE @,
              !.process = NoProcess, !.isRunning = FALSE, !.isBusy = FALSE]

\* ClaudeProcess.forceStop
forceStop(w) == [stop(w) EXCEPT !.currentResponse = <<>>]

\* ClaudeProcess.restart
restart(w) == [stop(w) EXCEPT !.timers.restart = @ + 1]

\* children spawned and restarts pending: what MaxChildren bounds
Spawns(w) == Len(w.children) + w.timers.restart + w.timers.auto

\* ------------------------------------------------------ session multiplexer
\* SessionManager of the desktop bridge.  A Session is its id, name, working
\* directory and status; its worker is workers[id], which outlives the entry
\* in `sessions` (the timers and the children's handlers hold it).  The two
\* timestamps are read by no operation.  An absent option, like an empty one,
\* is "" or the empty path (both are falsy in `options.name || ...`).
defaultWorkingDirectory == <<"/", "p">>
NaN == -1
Names      == {"proj", "2"}
CreateOptions ==
    { [name |-> "", workingDirectory |-> <<>>],
      [name |-> "proj", workingDirectory |-> <<>>],
      [name |-> "proj", workingDirectory |-> <<"/", "e">>] }

\* Map<number, Session>
SessionKeys(m)   == { m[i].id : i \in DOMAIN m }
SessionHas(m, k) == \E i \in DOMAIN m : m[i].id = k
SessionIdx(m, k) == CHOOSE i \in DOMAIN m : m[i].id = k
SessionGet(m, k) == m[SessionIdx(m, k)]
SessionSet(m, k, v) ==
    IF SessionHas(m, k) THEN [m EXCEPT ![SessionIdx(m, k)] = v] ELSE Append(m, v)
SessionDelete(m, k) == SelectSeq(m, LAMBDA x : x.id # k)

\* parseInt(idOrName, 10) on the names used here: "2" is a numeral, the other
\* names (a default name included) start with a letter
parseInt(name) == IF name = "2" THEN 2 ELSE NaN

\* `${prefix}${id}`, the default name
DefaultName(id) == "session" \o ToString(id)

OverCap(size) == size > maxSessions
AtCap(size) == size >= maxSessions

NewSession(id, options) ==
    [id |-> id,
     name |-> IF options.name # "" THEN options.name ELSE DefaultName(id),
     workingDirectory |-> IF options.workingDirectory # <<>>
                          THEN options.workingDirectory ELSE defaultWorkingDirectory,
     status |-> "idle"]

\* the argument of switch with its typeof
Number(n) == [typeof |-> "number", value |-> n]
String(t) == [typeof |-> "string", value |-> t]

\* findSession: a number is a key; a string that parses as a number is a key
\* too; any other string is matched against the names, first match in
\* insertion order.  The result is the set of ids found (empty: null).
findSession(idOrName) ==
    IF idOrName.typeof = "number"
    THEN {idOrName.value} \cap SessionKeys(sessions)
    ELSE IF parseInt(idOrName.value) # NaN
         THEN {parseInt(idOrName.value)} \cap SessionKeys(sessions)
         ELSE LET hits == { i \in DOMAIN sessions : sessions[i].name = idOrName.value }
              IN  IF hits = {} THEN {}
                  ELSE {sessions[CHOOSE i \in hits : \A j \in hits : i <= j].id}

\* getActiveSession: the ids of the active Session (empty: null)
getActiveSession ==
    IF activeSessionId = NoSession THEN {}
    ELSE {activeSessionId} \cap SessionKeys(sessions)

\* SessionManager.create
create(options) ==
    /\ IF AtCap(Len(sessions))
       THEN /\ last' = [NoLast EXCEPT !.op = "create", !.result = "error",
                                      !.dir = options.workingDirectory]
            /\ UNCHANGED bridgeVars
       ELSE /\ nextId <= MaxIds
            /\ nextId' = nextId + 1
            /\ sessions' = SessionSet(sessions, nextId, NewSession(nextId, options))
            /\ workers' = Append(workers, start(ClaudeProcess).w)
            /\ activeSessionId' =
                  IF activeSessionId = NoSession THEN nextId ELSE activeSessionId
            /\ last' = [NoLast EXCEPT !.op = "create", !.result = "success",
                                      !.id = nextId, !.dir = options.workingDirectory,
                                      !.emitted = start(ClaudeProcess).emitted]
    /\ sent' = <<>>
    /\ UNCHANGED <<hubVars, agentVars>>

\* create called on the manager directly, the Telegram side idle
Create(options) == create(options) /\ UNCHANGED chatVars

\* SessionManager.switch
switch(idOrName) ==
    /\ IF findSession(idOrName) = {}
       THEN /\ last' = [NoLast EXCEPT !.op = "switch", !.result = "error",
                                      !.frame = idOrName]
            /\ UNCHANGED bridgeVars
       ELSE /\ activeSessionId' = CHOOSE id \in findSession(idOrName) : TRUE
            /\ last' = [NoLast EXCEPT !.op = "switch", !.result = "success",
                                      !.id = activeSessionId', !.frame = idOrName]
            /\ UNCHANGED <<sessions, nextId, workers>>
    /\ sent' = <<>>
    /\ UNCHANGED <<hubVars, agentVars>>

\* switch called on the manager directly, the Telegram side idle
Switch(idOrName) == switch(idOrName) /\ UNCHANGED chatVars

\* close: the session that becomes active when the active one is closed.
\* Array.from(this.sessions.keys())[0] is the first key in insertion order.
ActivateNewest(remaining) ==
    IF Len(remaining) > 0 THEN remaining[Len(remaining)].id ELSE NoSession
ActivateNone(remaining) == NoSession
ActivateRemaining(remaining) ==
    IF Len(remaining) > 0 THEN remaining[1].id ELSE NoSession

\* SessionManager.close; id is NoSession when the argument is absent
close(id) ==
    LET targetId == IF id # NoSession THEN id ELSE activeSessionId
        remaining == SessionDelete(sessions, targetId)
    IN
    /\ IF targetId = NoSession \/ ~SessionHas(sessions, targetId)
       THEN /\ last' = [NoLast EXCEPT !.op = "close", !.result = "error"]
            /\ UNCHANGED bridgeVars
       ELSE /\ workers' = [workers EXCEPT ![targetId] = stop(@)]
            /\ sessions' = remaining
            /\ activeSessionId' =
                  IF activeSessionId = targetId
                  THEN ActivateRemaining(remaining)
                  ELSE activeSessionId
            /\ last' = [NoLast EXCEPT !.op = "close", !.result = "success",
                                      !.id = targetId, !.prev = {activeSessionId}]
            /\ UNCHANGED nextId
    /\ sent' = <<>>
    /\ UNCHANGED <<hubVars, agentVars>>

\* close called on the manager directly, the Telegram side idle
Close(id) == close(id) /\ UNCHANGED chatVars

\* SessionManager.rename
rename(name) ==
    /\ IF getActiveSession = {}
       THEN /\ last' = [NoLast EXCEPT !.op = "rename", !.result = "error"]
            /\ UNCHANGED bridgeVars
       ELSE /\ sessions' = [sessions EXCEPT
                               ![SessionIdx(sessions, activeSessionId)].name = name]
            /\ last' = [NoLast EXCEPT !.op = "rename", !.result = "success",
                                      !.id = activeSessionId]
            /\ UNCHANGED <<activeSessionId, nextId, workers>>
    /\ sent' = <<>>
    /\ UNCHANGED <<hubVars, agentVars>>

\* rename called on the manager directly, the Telegram side idle
Rename(name) == rename(name) /\ UNCHANGED chatVars

\* SessionManager.stopAll
StopAll ==
    /\ workers' = [id \in DOMAIN workers |->
                      IF SessionHas(sessions, id) THEN stop(workers[id])
                      ELSE workers[id]]
    /\ sessions' = <<>>
    /\ activeSessionId' = NoSession
    /\ last' = [NoLast EXCEPT !.op = "stopAll"]
    /\ sent' = <<>>
    /\ UNCHANGED <<nextId, hubVars, agentVars, chatVars>>

SessionNext ==
    \/ \E options \in CreateOptions : Create(options)
    \/ \E idOrName \in { Number(n) : n \in 1..MaxIds } \cup { String(t) : t \in Names } :
          Switch(idOrName)
    \/ \E id \in {NoSession} \cup (1..MaxIds) : Close(id)
    \/ \E name \in Names : Rename(name)
    \/ StopAll
SessionSpec == Init /\ [][SessionNext]_vars

\* setupProcessHandlers: what the handlers of 'message', 'done' and 'error' do
\* to the Session when the worker emits `emitted` ('ready' and 'exit' change
\* nothing); the Session of a closed session is no longer in the map
setupProcessHandlers(ss, id, emitted) ==
    IF SessionHas(ss, id)
       /\ \E i \in DOMAIN emitted : emitted[i].name \in {"message", "done", "error"}
    THEN [ss EXCEPT ![SessionIdx(ss, id)].status = "idle"]
    ELSE ss

Texts == {"hi"}

\* SessionManager.sendMessage
SessionSendMessage(text) ==
    /\ IF getActiveSession = {}
       THEN /\ last' = [NoLast EXCEPT !.op = "send", !.result = "no session"]
            /\ UNCHANGED bridgeVars
       ELSE IF ~workers[activeSessionId].isRunning
       THEN /\ last' = [NoLast EXCEPT !.op = "send", !.result = "not running",
                                      !.id = activeSessionId]
            /\ UNCHANGED bridgeVars
       ELSE /\ sessions' = [sessions EXCEPT
                               ![SessionIdx(sessions, activeSessionId)].status = "busy"]
            /\ workers' = [workers EXCEPT
                              ![activeSessionId] = ProcessSendMessage(@, text)]
            /\ last' = [NoLast EXCEPT
                           !.op = "send",
                           !.result = IF ProcessSendResult(workers[activeSessionId]) = ""
                                      THEN "accepted"
                                      ELSE ProcessSendResult(workers[activeSessionId]),
                           !.id = activeSessionId,
                           !.child = workers[activeSessionId].process]
            /\ UNCHANGED <<activeSessionId, nextId>>
    /\ sent' = <<>>
    /\ UNCHANGED <<hubVars, agentVars>>

\* SessionSendMessage called on the manager directly, the Telegram side idle
SendMessage(text) == SessionSendMessage(text) /\ UNCHANGED chatVars

\* SessionManager.forceStopCurrent
forceStopCurrent ==
    /\ IF getActiveSession = {}
       THEN UNCHANGED bridgeVars
       ELSE /\ workers' = [workers EXCEPT ![activeSessionId] = forceStop(@)]
            /\ sessions' = [sessions EXCEPT
                               ![SessionIdx(sessions, activeSessionId)].status = "idle"]
            /\ UNCHANGED <<activeSessionId, nextId>>
    /\ last' = [NoLast EXCEPT !.op = "forceStop", !.id = activeSessionId]
    /\ sent' = <<>>
    /\ UNCHANGED <<hubVars, agentVars>>

\* forceStopCurrent called on the manager directly, the Telegram side idle
ForceStopCurrent == forceStopCurrent /\ UNCHANGED chatVars

\* SessionManager.restartCurrent
restartCurrent ==
    /\ IF getActiveSession = {}
       THEN UNCHANGED bridgeVars
       ELSE /\ Spawns(workers[activeSessionId]) < MaxChildren
            /\ workers' = [workers EXCEPT ![activeSessionId] = restart(@)]
            /\ UNCHANGED mgrVars
    /\ last' = [NoLast EXCEPT !.op = "restart", !.id = activeSessionId]
    /\ sent' = <<>>
    /\ UNCHANGED <<hubVars, agentVars>>

\* restartCurrent called on the manager directly, the Telegram side idle
RestartCurrent == restartCurrent /\ UNCHANGED chatVars

\* ------------------------------------------------------- Telegram bridge
\* Bridge of the Telegram front-end: messageQueue holds the texts that arrived
\* while the active session was busy.  Its handlers are async functions: each
\* runs to its first `await` in the step that calls it, and a suspended call
\* is a Task that resumes in a later step: "direct" is sendToSession waiting
\* for its notice to be sent, "handoff" is processQueue waiting for its
\* broadcast with the text it shifted, "retry" is processQueue's catch waiting
\* for the error broadcast.
Task(kind, text) == [kind |-> kind, text |-> text]

\* SessionManager.isCurrentBusy
isCurrentBusy == getActiveSession # {} /\ workers[activeSessionId].isBusy

\* SessionManager.sendMessage: what it throws, "accepted" when it returns
SessionSendResult ==
    IF getActiveSession = {} THEN "no session"
    ELSE IF ~workers[activeSessionId].isRunning THEN "not running"
    ELSE IF ProcessSendResult(workers[activeSessionId]) # ""
    THEN ProcessSendResult(workers[activeSessionId])
    ELSE "accepted"

\* Bridge.processQueue up to its first await: the queue and the tasks after.
\* Without an active session nothing is awaited before the send, which throws
\* at once, so the call is next suspended in its catch.
processQueue(q, ts) ==
    IF Len(q) = 0 THEN [queue |-> q, tasks |-> ts]
    ELSE [queue |-> Tail(q),
          tasks |-> ts \cup {Task(IF getActiveSession # {} THEN "handoff" ELSE "retry",
                                  Head(q))}]

\* the Bridge's handler of 'sessionDone', run by the emit of worker `id`
sessionDone(id, emitted, q, ts) ==
    IF (\E i \in DOMAIN emitted : emitted[i].name = "done") /\ id = activeSessionId
    THEN processQueue(q, ts)
    ELSE [queue |-> q, tasks |-> ts]

\* what a callback of worker `id` leaves: the worker, the Session its events
\* reach, the queue its 'done' sets going, and the record of the step
Callback(id, r, op, c, code) ==
    /\ workers' = [workers EXCEPT ![id] = r.w]
    /\ sessions' = setupProcessHandlers(sessions, id, r.emitted)
    /\ messageQueue' = sessionDone(id, r.emitted, messageQueue, tasks).queue
    /\ tasks' = sessionDone(id, r.emitted, messageQueue, tasks).tasks
    /\ last' = [NoLast EXCEPT !.op = op, !.id = id, !.child = c, !.removed = code,
                              !.emitted = r.emitted]
    /\ sent' = <<>>
    /\ UNCHANGED <<activeSessionId, nextId, hubVars, agentVars, botVars, received>>

Answering(id, c) ==
    /\ id \in DOMAIN workers
    /\ c \in DOMAIN workers[id].children
    /\ workers[id].children[c].state = "running"
    /\ workers[id].children[c].pending > 0

\* stdout 'data' of child c: an assistant message with a text
StreamAssistant(id, c, text) ==
    /\ Answering(id, c)
    /\ Len(workers[id].currentResponse) < MaxChunks
    /\ Callback(id, Returns(StreamAssistantText(workers[id], text), <<>>),
                "assistant", c, 0)

ResultMessages ==
    { [subtype |-> "success", result |-> "ok", total_cost_usd |-> 1,
       usage |-> [input_tokens |-> 1, output_tokens |-> 1]],
      [subtype |-> "", result |-> "", total_cost_usd |-> 0,
       usage |-> [input_tokens |-> 0, output_tokens |-> 0]] }

\* stdout 'data' of child c: the result message that ends its turn
StreamResult(id, c, msg) ==
    /\ Answering(id, c)
    /\ workers[id].sessionInfo.messageCount < MaxResults
    /\ Callback(id,
                LET r == StreamResultMessage(workers[id], msg)
                IN  Returns([r.w EXCEPT !.children[c].pending = @ - 1], r.emitted),
                "result", c, 0)

\* 'close' of child c: it has exited, by itself or killed, or it never ran
ProcessClose(id, c, code) ==
    /\ id \in DOMAIN workers
    /\ c \in DOMAIN workers[id].children
    /\ workers[id].children[c].state \in {"running", "killed", "errored"}
    /\ Spawns(workers[id]) < MaxChildren
    /\ Callback(id,
                LET r == handleProcessExit(workers[id], code)
                IN  Returns([r.w EXCEPT !.children[c].state = "closed"], r.emitted),
                "close event", c, code)

\* 'error' of child c: it could not be spawned
ProcessError(id, c) ==
    /\ id \in DOMAIN workers
    /\ c \in DOMAIN workers[id].children
    /\ workers[id].children[c].state = "running"
    /\ Spawns(workers[id]) < MaxChildren
    /\ Callback(id,
                LET r == handleProcessExit(workers[id], ErrorCode)
                IN  Returns([r.w EXCEPT !.children[c].state = "errored"], r.emitted),
                "error event", c, ErrorCode)

\* the callback of restart()'s setTimeout
RestartTimer(id) ==
    /\ id \in DOMAIN workers
    /\ workers[id].timers.restart > 0
    /\ Callback(id, start([workers[id] EXCEPT !.timers.restart = @ - 1]),
                "restart timer", workers[id].process, 0)

\* the callback of handleProcessExit's setTimeout
AutoRestartTimer(id) ==
    /\ id \in DOMAIN workers
    /\ workers[id].timers.auto > 0
    /\ Callback(id, start([workers[id] EXCEPT !.timers.auto = @ - 1]),
                "auto timer", workers[id].process, 0)

\* one Session and its worker: every operation on it and every callback
WorkerNext ==
    \/ /\ nextId = FirstId
       /\ Create([name |-> "", workingDirectory |-> <<>>])
    \/ \E text \in Texts : SendMessage(text)
    \/ ForceStopCurrent
    \/ RestartCurrent
    \/ Close(NoSession)
    \/ /\ sessions # <<>>
       /\ StopAll
    \/ \E id \in DOMAIN workers, c \in 1..MaxChildren, text \in Texts :
          StreamAssistant(id, c, text)
    \/ \E id \in DOMAIN workers, c \in 1..MaxChildren, msg \in ResultMessages :
          StreamResult(id, c, msg)
    \/ \E id \in DOMAIN workers, c \in 1..MaxChildren, code \in {0, 1} :
          ProcessClose(id, c, code)
    \/ \E id \in DOMAIN workers, c \in 1..MaxChildren : ProcessError(id, c)
    \/ \E id \in DOMAIN workers : RestartTimer(id)
    \/ \E id \in DOMAIN workers : AutoRestartTimer(id)
WorkerSpec == Init /\ [][WorkerNext]_vars

\* setTimeout runs its callback: a pending auto-restart is not postponed forever
WorkerFairSpec ==
    WorkerSpec /\ WF_vars(\E id \in DOMAIN workers : AutoRestartTimer(id))

\* ------------------------------------------------------------- Telegram bot
\* TelegramBotClient (telegram/bot.ts) and the handlers the Bridge hangs on
\* it.  A chat id is a number, a text a string.  The bot's own sendMessage
\* calls change no state; the notice each handler sends is kept as `reply`.
authPassword == "pw"
Chats == 1..MaxChats

\* the k-th instruction of the operator
Message(k) == "m" \o ToString(k)
Ord(text) == CHOOSE k \in 1..(MaxMessages + 1) : Message(k) = text

\* text.startsWith('/') and text.slice(1).split(' ') on the texts used here
SlashTexts ==
    {"/start", "/pw", "/stop", "/restart", "/new", "/switch 2", "/switch session1",
     "/close", "/close 2"}
BotTexts == {authPassword, "no", Message(1), "/start", "/pw", "/new", "/stop"}
IsCommand(text) == text \in SlashTexts
ParseCommand(text) ==
    CASE text = "/start"           -> [command |-> "start", args |-> ""]
      [] text = "/pw"              -> [command |-> "pw", args |-> ""]
      [] text = "/stop"            -> [command |-> "stop", args |-> ""]
      [] text = "/restart"         -> [command |-> "restart", args |-> ""]
      [] text = "/new"             -> [command |-> "new", args |-> ""]
      [] text = "/switch 2"        -> [command |-> "switch", args |-> "2"]
      [] text = "/switch session1" -> [command |-> "switch", args |-> "session1"]
      [] text = "/close"           -> [command |-> "close", args |-> ""]
      [] text = "/close 2"         -> [command |-> "close", args |-> "2"]

BotReturns(auth, pending, emitted, reply) ==
    [auth |-> auth, pending |-> pending, emitted |-> emitted, reply |-> reply]

\* a handleAuth that takes the password from a chat it never prompted
AuthUnprompted(chatId, text) ==
    IF text = authPassword
    THEN BotReturns(authenticatedChats \cup {chatId}, pendingAuth \ {chatId}, <<>>,
                    "authenticated")
    ELSE BotReturns(authenticatedChats, pendingAuth \cup {chatId}, <<>>, "prompt")

\* TelegramBotClient.handleAuth
handleAuth(chatId, text) ==
    IF chatId \notin pendingAuth
    THEN BotReturns(authenticatedChats, pendingAuth \cup {chatId}, <<>>, "prompt")
    ELSE IF text = authPassword
    THEN BotReturns(authenticatedChats \cup {chatId}, pendingAuth \ {chatId}, <<>>,
                    "authenticated")
    ELSE BotReturns(authenticatedChats, pendingAuth, <<>>, "wrong password")

\* TelegramBotClient.handleCommand: a known command and an unknown one take
\* the same course
BotHandleCommand(chatId, command) ==
    IF command = "start"
    THEN BotReturns(authenticatedChats, pendingAuth \cup {chatId}, <<>>, "help")
    ELSE IF chatId \notin authenticatedChats
    THEN BotReturns(authenticatedChats, pendingAuth \cup {chatId}, <<>>, "prompt")
    ELSE BotReturns(authenticatedChats, pendingAuth, <<Event("command", command)>>, "")

\* the bot's 'message' callback of setupHandlers
setupHandlers(chatId, text) ==
    IF IsCommand(text) THEN BotHandleCommand(chatId, ParseCommand(text).command)
    ELSE IF chatId \notin authenticatedChats THEN handleAuth(chatId, text)
    ELSE BotReturns(authenticatedChats, pendingAuth, <<Event("message", "")>>, "")

\* a handler of the Bridge that only answers the chat
Answer(result) ==
    /\ last' = [NoLast EXCEPT !.op = "telegram", !.result = result,
                              !.id = activeSessionId]
    /\ sent' = <<>>
    /\ UNCHANGED <<bridgeVars, hubVars, agentVars>>

\* the Bridge's handler of the bot's 'message', with sendToSession up to its
\* first await
TelegramMessage(text) ==
    /\ received' = Append(received,
                          [text |-> text, session |-> activeSessionId,
                           position |-> IF isCurrentBusy THEN Len(messageQueue) + 1
                                        ELSE 0,
                           handed |-> NoSession])
    /\ IF isCurrentBusy
       THEN /\ messageQueue' = Append(messageQueue, text)
            /\ UNCHANGED tasks
            /\ Answer("queued")
       ELSE /\ UNCHANGED messageQueue
            /\ IF getActiveSession = {}
               THEN UNCHANGED tasks /\ Answer("no session")
               ELSE IF ~workers[activeSessionId].isRunning
               THEN UNCHANGED tasks /\ Answer("not running")
               ELSE /\ tasks' = tasks \cup {Task("direct", text)}
                    /\ Answer("executing")

\* Bridge.handleCommand with handleNewCommand, handleSwitchCommand and
\* handleCloseCommand; what the manager throws is caught and answered
BridgeHandleCommand(command, args) ==
    CASE command = "new" ->
            /\ create([name |-> args, workingDirectory |-> <<>>])
            /\ UNCHANGED queueVars
      [] command = "switch" ->
            /\ IF args = "" THEN Answer("usage") ELSE switch(String(args))
            /\ UNCHANGED queueVars
      [] command = "close" ->
            /\ IF args # "" /\ parseInt(args) = NaN THEN Answer("usage")
               ELSE close(IF args = "" THEN NoSession ELSE parseInt(args))
            /\ UNCHANGED queueVars
      [] command = "stop" ->
            /\ forceStopCurrent
            /\ messageQueue' = <<>>
            /\ UNCHANGED <<tasks, received>>
      [] command = "restart" ->
            /\ restartCurrent
            /\ messageQueue' = <<>>
            /\ UNCHANGED <<tasks, received>>
      [] OTHER ->
            /\ Answer("unknown command")
            /\ UNCHANGED queueVars

\* one update from Telegram: the bot's callback and the Bridge handler that
\* the event it emits runs
TelegramUpdate(chatId, text) ==
    LET r == setupHandlers(chatId, text)
    IN  /\ authenticatedChats' = r.auth
        /\ pendingAuth' = r.pending
        /\ update' = [chatId |-> chatId, text |-> text, emitted |-> r.emitted,
                      reply |-> r.reply]
        /\ IF r.emitted = <<>> THEN Answer("") /\ UNCHANGED queueVars
           ELSE IF r.emitted[1].name = "message" THEN TelegramMessage(text)
           ELSE BridgeHandleCommand(ParseCommand(text).command, ParseCommand(text).args)

\* the record of a text in `received` once the manager has taken it or thrown:
\* `handed` is the session that accepted it
Handed(text) ==
    [i \in DOMAIN received |->
        IF received[i].text = text /\ SessionSendResult = "accepted"
        THEN [received[i] EXCEPT !.handed = activeSessionId]
        ELSE received[i]]

\* sendToSession resumes after its notice: the text goes to the manager, and
\* what the manager throws is answered to the chat
ResumeSendToSession(text) ==
    /\ Task("direct", text) \in tasks
    /\ SessionSendMessage(text)
    /\ tasks' = tasks \ {Task("direct", text)}
    /\ received' = Handed(text)
    /\ UNCHANGED <<botVars, messageQueue>>

\* processQueue resumes after its broadcast: the text it shifted goes to the
\* manager; when the manager throws, the catch broadcasts the error
ResumeProcessQueue(text) ==
    /\ Task("handoff", text) \in tasks
    /\ SessionSendMessage(text)
    /\ tasks' = (tasks \ {Task("handoff", text)})
                   \cup (IF SessionSendResult = "accepted" THEN {}
                         ELSE {Task("retry", text)})
    /\ received' = Handed(text)
    /\ UNCHANGED <<botVars, messageQueue>>

\* processQueue's catch resumes after the error broadcast and calls
\* processQueue again
ResumeCatch(text) ==
    /\ Task("retry", text) \in tasks
    /\ messageQueue' = processQueue(messageQueue, tasks \ {Task("retry", text)}).queue
    /\ tasks' = processQueue(messageQueue, tasks \ {Task("retry", text)}).tasks
    /\ last' = [NoLast EXCEPT !.op = "processQueue", !.id = activeSessionId]
    /\ sent' = <<>>
    /\ UNCHANGED <<bridgeVars, hubVars, agentVars, botVars, received>>

\* the bot and the chats that write to it
BotNext ==
    \E chatId \in Chats, text \in BotTexts :
       /\ text = "/new" => nextId = FirstId
       /\ TelegramUpdate(chatId, text)
       /\ Len(received') <= MaxForwarded
BotSpec == Init /\ [][BotNext]_vars

\* the operator's chat: the operator authenticates and sends the
\* instructions Message(1), Message(2), ... in this order
Operator == CHOOSE chatId \in Chats : \A other \in Chats : chatId <= other
Authenticate ==
    /\ Operator \notin authenticatedChats
    /\ TelegramUpdate(Operator, authPassword)
Instruct ==
    /\ Operator \in authenticatedChats
    /\ Len(received) < MaxMessages
    /\ TelegramUpdate(Operator, Message(Len(received) + 1))
Command(text) ==
    /\ Operator \in authenticatedChats
    /\ TelegramUpdate(Operator, text)

\* the Bridge with one session: the operator instructs, stops and restarts
\* it; its worker answers, exits and is restarted
QueueNext ==
    \/ Authenticate
    \/ /\ nextId = FirstId
       /\ Command("/new")
    \/ Instruct
    \/ \E text \in {"/stop", "/restart"} : Command(text)
    \/ \E k \in 1..MaxMessages : ResumeSendToSession(Message(k))
    \/ \E k \in 1..MaxMessages : ResumeProcessQueue(Message(k))
    \/ \E k \in 1..MaxMessages : ResumeCatch(Message(k))
    \/ \E id \in DOMAIN workers, c \in 1..MaxChildren, msg \in ResultMessages :
          StreamResult(id, c, msg)
    \/ \E id \in DOMAIN workers, c \in 1..MaxChildren :
          ProcessClose(id, c, 1)
    \/ \E id \in DOMAIN workers : RestartTimer(id)
    \/ \E id \in DOMAIN workers : AutoRestartTimer(id)
QueueSpec == Init /\ [][QueueNext]_vars

\* the Bridge with several sessions: the operator instructs, switches and
\* closes them; their workers answer
SwitchNext ==
    \/ Authenticate
    \/ /\ nextId <= MaxQueueSessions
       /\ Command("/new")
    \/ Instruct
    \/ \E text \in {"/switch 2", "/switch session1", "/close"} : Command(text)
    \/ \E k \in 1..MaxMessages : ResumeSendToSession(Message(k))
    \/ \E k \in 1..MaxMessages : ResumeProcessQueue(Message(k))
    \/ \E k \in 1..MaxMessages : ResumeCatch(Message(k))
    \/ \E id \in DOMAIN workers, c \in 1..MaxChildren, msg \in ResultMessages :
          StreamResult(id, c, msg)
SwitchSpec == Init /\ [][SwitchNext]_vars

\* ------------------------------------------------------------ desktop agent
\* desktop-claude.ts and its SessionManager (packages/relay).  A session id
\* `session-<time>-<random>` is taken to be fresh: the next unused integer.
\* A SessionState is flat: the Session fields id, name, workingDirectory and
\* messageCount, then isFirstMessage, claudeProcess (the prompt and directory
\* of the running child, or none) and responseBuffer; the two timestamps are
\* left out.  A name is the directory name and the counter generateSessionName
\* puts behind it (0: none).  The events of a child that was killed by
\* deleteSession or cleanup reach no session of the manager and are left out.
argv == << <<"/", "p">>, <<"/", "q", "/">> >>
allowedDirectories == [i \in DOMAIN argv |-> resolve(argv[i])]
defaultDirectory == resolve(argv[1])
\* the directories fs.existsSync finds
ExistingDirs ==
    { <<"/">>, <<"/", "p">>, <<"/", "p", "/", "x">>, <<"/", "p", "e">>,
      <<"/", "e">>, <<"/", "q">> }
existsSync(p) == resolve(p) \in ExistingDirs

NoChild == [running |-> FALSE, prompt |-> "", cwd |-> <<>>, continue |-> FALSE]

\* a prefix test on the allow-list entry alone
AgentAllowedLax(targetDir) == AllowedNoSep(allowedDirectories, targetDir)
AgentAllowed(targetDir) == isDirectoryAllowed(allowedDirectories, targetDir)

generateSessionName(m, workingDirectory) ==
    LET count == Cardinality({ i \in DOMAIN m.sessions :
                                 m.sessions[i].workingDirectory = workingDirectory })
    IN  [dirName |-> basename(workingDirectory),
         count |-> IF count > 0 THEN count + 1 ELSE 0]

\* createSession: what it throws, or "success"
CreateSessionResult(workingDirectory) ==
    LET targetDir == IF workingDirectory # <<>> THEN workingDirectory ELSE defaultDirectory
    IN  IF ~AgentAllowed(targetDir) THEN "not allowed"
        ELSE IF ~existsSync(targetDir) THEN "missing"
        ELSE "success"

\* createSession when it does not throw: the manager afterwards
createSession(m, sessionId, workingDirectory, name) ==
    LET targetDir == IF workingDirectory # <<>> THEN workingDirectory ELSE defaultDirectory
        state == [id |-> sessionId,
                  name |-> IF name # <<>> THEN [dirName |-> name, count |-> 0]
                           ELSE generateSessionName(m, targetDir),
                  workingDirectory |-> targetDir,
                  messageCount |-> 0,
                  isFirstMessage |-> TRUE,
                  claudeProcess |-> NoChild,
                  responseBuffer |-> ""]
        added == SessionSet(m.sessions, sessionId, state)
    IN  [m EXCEPT !.sessions = added,
                  !.activeSessionId = IF Len(added) = 1 THEN sessionId ELSE @]

\* updateWorkingDirectory: what it throws, or "success"
UpdateResult(m, sessionId, newDirectory) ==
    IF ~SessionHas(m.sessions, sessionId) THEN "not found"
    ELSE IF ~AgentAllowed(newDirectory) THEN "not allowed"
    ELSE IF ~existsSync(newDirectory) THEN "missing"
    ELSE "success"

\* updateWorkingDirectory when it does not throw; the name is generated after
\* the directory has been replaced
updateWorkingDirectory(m, sessionId, newDirectory) ==
    LET i == SessionIdx(m.sessions, sessionId)
        moved == [m EXCEPT !.sessions[i].workingDirectory = resolve(newDirectory)]
    IN  [moved EXCEPT !.sessions[i].name = generateSessionName(moved, newDirectory)]

\* deleteSession when it does not throw
deleteSession(m, sessionId) ==
    LET remaining == SessionDelete(m.sessions, sessionId)
    IN  [m EXCEPT !.sessions = remaining,
                  !.activeSessionId =
                      IF @ = sessionId
                      THEN IF Len(remaining) > 0 THEN remaining[1].id ELSE NoSession
                      ELSE @]

\* sendToPhone(content, sessionId): the frame, if the socket is open
sendToPhone(out, m, content, sessionId) ==
    IF agentWs = "OPEN"
    THEN Append(out, [type |-> "message", content |-> content,
                      sessionId |-> IF sessionId # NoSession THEN sessionId
                                    ELSE IF m.activeSessionId # NoSession
                                         THEN m.activeSessionId
                                         ELSE DefaultSessionId])
    ELSE out

\* sendSessionList / a control frame: ws.send of a frame without payload
sendControl(out, type, sessionId) ==
    IF agentWs = "OPEN"
    THEN Append(out, [type |-> type, content |-> "", sessionId |-> sessionId])
    ELSE out
sendSessionList(out, m) ==
    IF m.exists THEN sendControl(out, "session_list", m.activeSessionId) ELSE out

\* SessionManager.sendMessage: "not found", "busy" or "started"
SendResult(m, sessionId) ==
    IF ~SessionHas(m.sessions, sessionId) THEN "not found"
    ELSE IF SessionGet(m.sessions, sessionId).claudeProcess.running THEN "busy"
    ELSE "started"

\* the child is spawned for the active session, whichever was named
StartInActive(m, sessionId, message) ==
    LET i == SessionIdx(m.sessions, m.activeSessionId)
    IN  [m EXCEPT !.sessions[i].responseBuffer = "",
                  !.sessions[i].claudeProcess =
                      [running |-> TRUE, prompt |-> message,
                       cwd |-> m.sessions[i].workingDirectory,
                       continue |-> ~m.sessions[i].isFirstMessage]]
\* startClaudeProcess: the child is spawned with the prompt in the session's
\* directory, `--continue` after the first answered turn
startClaudeProcess(m, sessionId, message) ==
    LET i == SessionIdx(m.sessions, sessionId)
    IN  [m EXCEPT !.sessions[i].responseBuffer = "",
                  !.sessions[i].claudeProcess =
                      [running |-> TRUE, prompt |-> message,
                       cwd |-> m.sessions[i].workingDirectory,
                       continue |-> ~m.sessions[i].isFirstMessage]]

\* sendMessage: the manager afterwards, and the frames of its onError callback
SendMessageState(m, sessionId, message) ==
    IF SendResult(m, sessionId) = "started"
    THEN startClaudeProcess(m, sessionId, message) ELSE m
SendMessageFrames(out, m, sessionId, message) ==
    IF SendResult(m, sessionId) = "started" THEN out
    ELSE sendToPhone(out, m, SendResult(m, sessionId), sessionId)

\* initSessionManager: a new manager with the default session
initSessionManager(sessionId) == createSession([NullManager EXCEPT !.exists = TRUE],
                                               sessionId, <<>>, <<>>)

\* parseCommand on the message texts used here
NoCommand == [type |-> "none", args |-> <<>>]
parseCommand(content) ==
    CASE content = "new session"         -> [type |-> "new_session", args |-> <<>>]
      [] content = "new session in /e"   -> [type |-> "new_session", args |-> <<"/", "e">>]
      [] content = "switch to /p/x"      -> [type |-> "switch_dir",
                                             args |-> <<"/", "p", "/", "x">>]
      [] content = "cd x"                -> [type |-> "change_dir", args |-> <<"x">>]
      [] content = "cd .."               -> [type |-> "change_dir", args |-> <<".", ".">>]
      [] content = "cd /e"               -> [type |-> "change_dir", args |-> <<"/", "e">>]
      [] content = "sessions"            -> [type |-> "list_sessions", args |-> <<>>]
      [] OTHER                           -> NoCommand
Commands == {"new session", "new session in /e", "switch to /p/x",
             "cd x", "cd ..", "cd /e", "sessions"}
PlainTexts == {"hello"}

\* what a handler leaves behind: the manager, the ids generated, the frames
\* sent, what happened, and the session and directory it was about
AgentOutcome(m, n, out, result, id, dir) ==
    [m |-> m, minted |-> n, out |-> out, result |-> result, id |-> id, dir |-> dir]

\* handleCommand
handleCommand(m, n, command, currentSessionId) ==
    IF command.type \in {"new_session", "switch_dir"}
    THEN IF CreateSessionResult(command.args) = "success"
         THEN LET made == createSession(m, n + 1, command.args, <<>>)
              IN  AgentOutcome(made, n + 1,
                          sendSessionList(sendToPhone(<<>>, made, "created", n + 1), made),
                          "success", n + 1, command.args)
         ELSE AgentOutcome(m, n, sendToPhone(<<>>, m, "create failed", currentSessionId),
                      CreateSessionResult(command.args), NoSession, command.args)
    ELSE IF command.type = "change_dir"
    THEN LET targetSessionId == IF currentSessionId # NoSession THEN currentSessionId
                                ELSE m.activeSessionId
             targetDir ==
                 IF SessionHas(m.sessions, targetSessionId) /\ ~isAbsolute(command.args)
                 THEN PathResolve(<<SessionGet(m.sessions, targetSessionId).workingDirectory,
                                    command.args>>)
                 ELSE command.args
         IN  IF targetSessionId = NoSession
             THEN AgentOutcome(m, n, sendToPhone(<<>>, m, "change failed", currentSessionId),
                          "no active", NoSession, command.args)
             ELSE IF UpdateResult(m, targetSessionId, targetDir) = "success"
             THEN LET moved == updateWorkingDirectory(m, targetSessionId, targetDir)
                  IN  AgentOutcome(moved, n,
                              sendSessionList(sendToPhone(<<>>, moved, "changed",
                                                          targetSessionId), moved),
                              "success", targetSessionId, targetDir)
             ELSE AgentOutcome(m, n, sendToPhone(<<>>, m, "change failed", currentSessionId),
                          UpdateResult(m, targetSessionId, targetDir),
                          targetSessionId, targetDir)
    ELSE AgentOutcome(m, n, sendToPhone(<<>>, m, "list", currentSessionId),
                 "success", currentSessionId, <<>>)

\* sendMessageToActive
sendMessageToActive(m, n, message) ==
    LET made == IF m.activeSessionId = NoSession
                THEN [createSession(m, n + 1, <<>>, <<>>) EXCEPT !.activeSessionId = n + 1]
                ELSE m
        n1 == IF m.activeSessionId = NoSession THEN n + 1 ELSE n
    IN  AgentOutcome(SendMessageState(made, made.activeSessionId, message), n1,
                SendMessageFrames(<<>>, made, made.activeSessionId, message),
                SendResult(made, made.activeSessionId), made.activeSessionId, <<>>)

\* handleUserMessage after the manager is there
routeUserMessage(m, n, content, sessionId) ==
    IF parseCommand(content) # NoCommand
    THEN handleCommand(m, n, parseCommand(content), sessionId)
    ELSE LET targetSessionId == IF sessionId # NoSession THEN sessionId
                                ELSE m.activeSessionId
         IN  IF targetSessionId # NoSession
             THEN AgentOutcome(SendMessageState(m, targetSessionId, content), n,
                          SendMessageFrames(<<>>, m, targetSessionId, content),
                          SendResult(m, targetSessionId), targetSessionId, <<>>)
             ELSE sendMessageToActive(m, n, content)

\* a `message` frame arrives: handleUserMessage(payload)
HandleUserMessage(content, sessionId) ==
    LET m0 == IF sessionManager.exists THEN sessionManager
              ELSE initSessionManager(minted + 1)
        n0 == IF sessionManager.exists THEN minted ELSE minted + 1
        o  == routeUserMessage(m0, n0, content, sessionId)
    IN
    /\ agentWs = "OPEN"
    /\ o.minted <= MaxMinted
    /\ sessionManager' = o.m
    /\ minted' = o.minted
    /\ sent' = o.out
    /\ last' = [NoLast EXCEPT !.op = "user_message", !.id = sessionId,
                              !.frame = content, !.result = o.result,
                              !.dir = o.dir, !.pairId = o.id]
    /\ UNCHANGED <<agentWs, hubVars, bridgeVars, chatVars>>

\* a `session_create` frame arrives
HandleSessionCreate(workingDirectory, name) ==
    LET m0 == IF sessionManager.exists THEN sessionManager
              ELSE initSessionManager(minted + 1)
        n0 == IF sessionManager.exists THEN minted ELSE minted + 1
        ok == CreateSessionResult(workingDirectory) = "success"
        made == createSession(m0, n0 + 1, workingDirectory, name)
    IN
    /\ agentWs = "OPEN"
    /\ (IF ok THEN n0 + 1 ELSE n0) <= MaxMinted
    /\ sessionManager' = IF ok THEN made ELSE m0
    /\ minted' = IF ok THEN n0 + 1 ELSE n0
    /\ sent' = IF ok
               THEN sendSessionList(sendControl(<<>>, "session_created", n0 + 1), made)
               ELSE sendControl(<<>>, "session_error", NoSession)
    /\ last' = [NoLast EXCEPT !.op = "session_create", !.dir = workingDirectory,
                              !.result = CreateSessionResult(workingDirectory),
                              !.pairId = IF ok THEN n0 + 1 ELSE NoSession]
    /\ UNCHANGED <<agentWs, hubVars, bridgeVars, chatVars>>

\* a `session_switch` frame arrives
HandleSessionSwitch(sessionId) ==
    /\ agentWs = "OPEN"
    /\ sessionManager.exists
    /\ IF SessionHas(sessionManager.sessions, sessionId)
       THEN /\ sessionManager' = [sessionManager EXCEPT !.activeSessionId = sessionId]
            /\ sent' = sendControl(<<>>, "session_switched", sessionId)
            /\ last' = [NoLast EXCEPT !.op = "session_switch", !.id = sessionId,
                                      !.result = "success"]
       ELSE /\ sent' = sendControl(<<>>, "session_error", NoSession)
            /\ last' = [NoLast EXCEPT !.op = "session_switch", !.id = sessionId,
                                      !.result = "not found"]
            /\ UNCHANGED sessionManager
    /\ UNCHANGED <<minted, agentWs, hubVars, bridgeVars, chatVars>>

\* a `session_delete` frame arrives
HandleSessionDelete(sessionId) ==
    /\ agentWs = "OPEN"
    /\ sessionManager.exists
    /\ IF SessionHas(sessionManager.sessions, sessionId)
       THEN /\ sessionManager' = deleteSession(sessionManager, sessionId)
            /\ sent' = sendSessionList(sendControl(<<>>, "session_deleted", sessionId),
                                       sessionManager')
            /\ last' = [NoLast EXCEPT !.op = "session_delete", !.id = sessionId,
                                      !.result = "success"]
       ELSE /\ sent' = sendControl(<<>>, "session_error", NoSession)
            /\ last' = [NoLast EXCEPT !.op = "session_delete", !.id = sessionId,
                                      !.result = "not found"]
            /\ UNCHANGED sessionManager
    /\ UNCHANGED <<minted, agentWs, hubVars, bridgeVars, chatVars>>

\* an `unpaired` frame arrives: cleanup(), sessionManager = null
Unpaired ==
    /\ agentWs = "OPEN"
    /\ sessionManager' = NullManager
    /\ sent' = <<>>
    /\ last' = [NoLast EXCEPT !.op = "unpaired"]
    /\ UNCHANGED <<minted, agentWs, hubVars, bridgeVars, chatVars>>

\* a `paired` frame arrives; fresh: its pairId is not currentPairId
Paired(fresh) ==
    LET m0 == IF fresh THEN initSessionManager(minted + 1) ELSE sessionManager
    IN
    /\ agentWs = "OPEN"
    /\ fresh => minted + 1 <= MaxMinted
    /\ sessionManager' = m0
    /\ minted' = IF fresh THEN minted + 1 ELSE minted
    /\ sent' = sendSessionList(<<>>, m0)
    /\ last' = [NoLast EXCEPT !.op = "paired"]
    /\ UNCHANGED <<agentWs, hubVars, bridgeVars, chatVars>>

\* the agent's socket closes
AgentWsClose ==
    /\ agentWs = "OPEN"
    /\ agentWs' = "CLOSED"
    /\ sent' = <<>>
    /\ last' = [NoLast EXCEPT !.op = "agent_close"]
    /\ UNCHANGED <<sessionManager, minted, hubVars, bridgeVars, chatVars>>

\* stdout or stderr data of the child of a session
ChildData(sessionId) ==
    /\ sessionManager.exists
    /\ SessionHas(sessionManager.sessions, sessionId)
    /\ SessionGet(sessionManager.sessions, sessionId).claudeProcess.running
    /\ sessionManager' =
          [sessionManager EXCEPT
              !.sessions[SessionIdx(sessionManager.sessions, sessionId)].responseBuffer
                  = "text"]
    /\ sent' = <<>>
    /\ last' = [NoLast EXCEPT !.op = "child_data", !.id = sessionId]
    /\ UNCHANGED <<minted, agentWs, hubVars, bridgeVars, chatVars>>

\* the close event of the child of a session, with its exit code
ChildClose(sessionId, code) ==
    LET i == SessionIdx(sessionManager.sessions, sessionId)
        st == sessionManager.sessions[i]
        answered == st.responseBuffer # "" /\ code = 0
    IN
    /\ sessionManager.exists
    /\ SessionHas(sessionManager.sessions, sessionId)
    /\ st.claudeProcess.running
    /\ answered => st.messageCount < MaxTurns
    /\ sessionManager' =
          [sessionManager EXCEPT
              !.sessions[i].isFirstMessage = IF answered THEN FALSE ELSE @,
              !.sessions[i].messageCount = IF answered THEN @ + 1 ELSE @,
              !.sessions[i].claudeProcess = NoChild,
              !.sessions[i].responseBuffer = ""]
    /\ sent' = IF st.responseBuffer # ""
               THEN sendToPhone(<<>>, sessionManager, "response", sessionId)
               ELSE IF code # 0
                    THEN sendToPhone(<<>>, sessionManager, "exit error", sessionId)
                    ELSE <<>>
    /\ last' = [NoLast EXCEPT !.op = "child_close", !.id = sessionId, !.removed = code]
    /\ UNCHANGED <<minted, agentWs, hubVars, bridgeVars, chatVars>>

\* the error event of the child of a session (it could not be spawned)
ChildError(sessionId) ==
    /\ sessionManager.exists
    /\ SessionHas(sessionManager.sessions, sessionId)
    /\ SessionGet(sessionManager.sessions, sessionId).claudeProcess.running
    /\ sessionManager' =
          [sessionManager EXCEPT
              !.sessions[SessionIdx(sessionManager.sessions, sessionId)].claudeProcess
                  = NoChild]
    /\ sent' = sendToPhone(<<>>, sessionManager, "spawn error", sessionId)
    /\ last' = [NoLast EXCEPT !.op = "child_error", !.id = sessionId]
    /\ UNCHANGED <<minted, agentWs, hubVars, bridgeVars, chatVars>>

SessionIdInputs == {NoSession} \cup (1..MaxMinted)

\* the directory guard: sessions are created, moved and deleted; a session is
\* asked for when there is none
GuardNext ==
    \/ /\ sessionManager.sessions = <<>>
       /\ \E dir \in DirInputs \ {<<"/", "p">>, <<"/", "q", "/">>}, name \in {<<>>, <<"n">>} :
             HandleSessionCreate(dir, name)
    \/ /\ sessionManager.sessions = <<>>
       /\ \E content \in {"new session", "new session in /e", "switch to /p/x"} \cup PlainTexts :
             HandleUserMessage(content, NoSession)
    \/ \E content \in {"cd x", "cd ..", "cd /e", "sessions"}, sessionId \in SessionIdInputs :
          HandleUserMessage(content, sessionId)
    \/ \E dir \in {<<"/", "e">>, <<"/", "p", "e">>, <<"/", "p", "/", "y">>} :
          HandleSessionCreate(dir, <<>>)
    \/ \E sessionId \in 1..MaxMinted : HandleSessionDelete(sessionId)
    \/ \E sessionId \in 1..MaxMinted : ChildError(sessionId)
GuardSpec == Init /\ [][GuardNext]_vars

\* routing: messages, children and their answers
RoutingNext ==
    \/ Paired(TRUE)
    \/ sessionManager.exists /\ Paired(FALSE)
    \/ HandleSessionCreate(<<>>, <<>>)
    \/ \E content \in PlainTexts \cup {"new session", "sessions"},
          sessionId \in SessionIdInputs : HandleUserMessage(content, sessionId)
    \/ \E sessionId \in 1..MaxMinted : HandleSessionSwitch(sessionId)
    \/ \E sessionId \in 1..MaxMinted : HandleSessionDelete(sessionId)
    \/ \E sessionId \in 1..MaxMinted : ChildData(sessionId)
    \/ \E sessionId \in 1..MaxMinted, code \in {0, 1} : ChildClose(sessionId, code)
    \/ \E sessionId \in 1..MaxMinted : ChildError(sessionId)
    \/ Unpaired
    \/ AgentWsClose
RoutingSpec == Init /\ [][RoutingNext]_vars

\* every behaviour of the hub and of the multiplexer
Next ==
    RegistryNext \/ PairingNext \/ ExpiryNext \/ RelayNext \/ PresenceNext
        \/ RejoinNext \/ ReaperNext \/ SessionNext \/ WorkerNext
        \/ GuardNext \/ RoutingNext \/ BotNext \/ QueueNext \/ SwitchNext
Spec == Init /\ [][Next]_vars

\* ------------------------------------------------------------- properties

\* C1: the registry never holds two Connections with the same deviceId, and
\* when an auth for a device that is registered on another socket has been
\* accepted, that earlier socket is no longer open and the device's entry
\* holds the socket the auth came on.
C1_DisplacedByAuth ==
    last.op = "auth" /\ last.result = "success" /\ last.prev # {} /\ last.ws \notin last.prev
C1_OnePerDevice ==
    /\ \A i, j \in DOMAIN clients : clients[i].deviceId = clients[j].deviceId => i = j
    /\ C1_DisplacedByAuth =>
          /\ \A w \in last.prev : sock[w] \in {"CLOSING", "CLOSED"}
          /\ MapHas(clients, last.dev)
          /\ MapGet(clients, last.dev).ws = last.ws
\* an accepted auth has displaced a socket that was open until then
C1_Witness ==
    /\ C1_DisplacedByAuth
    /\ \E w \in last.prev : sock[w] = "CLOSING"
    /\ sock[last.ws] = "OPEN"


\* the step taken last was a confirm that created a room
ConfirmOk == last.op = "confirm" /\ last.result = "success"

\* C2: a confirm of a live, unexpired pair code by a device of the other role
\* succeeds and, in that one step, adds exactly one Room, deletes the
\* PendingPair (every confirm of the code now returns 'Invalid pair code'),
\* sets pairId on each registered Connection of the two devices and sends
\* `paired {pairId}` to each of them whose socket is open, and sends nothing else.
C2_ConfirmAtomic ==
    [][ ( /\ last'.op = "confirm"
          /\ last'.pre # NoPending
          /\ now' <= last'.pre.expiresAt
          /\ last'.pre.platform # last'.platform )
        => /\ last'.result = "success"
           /\ DOMAIN rooms' = DOMAIN rooms \cup {last'.pairId}
           /\ last'.pairId \notin DOMAIN rooms
           /\ \A r \in DOMAIN rooms : rooms'[r] = rooms[r]
           /\ FormattedOf[last'.code] \notin DOMAIN pendingPairs'
           /\ \A d \in Devices, p \in Platforms :
                 (PairingConfirm(last.code, d, p).result = "Invalid pair code")'
           /\ \A d \in {last'.pre.deviceId, last'.dev} :
                 MapHas(clients', d) =>
                    /\ MapGet(clients', d).pairId = last'.pairId
                    /\ sock'[MapGet(clients', d).ws] = "OPEN" =>
                          \E i \in DOMAIN sent' :
                             sent'[i] = [to   |-> MapGet(clients', d).ws,
                                         data |-> JSONStringify(Msg("paired", last'.pairId))]
           /\ \A i \in DOMAIN sent' :
                 /\ sent'[i].data = JSONStringify(Msg("paired", last'.pairId))
                 /\ \E d \in {last'.pre.deviceId, last'.dev} :
                       MapHas(clients', d) /\ MapGet(clients', d).ws = sent'[i].to
      ]_vars
\* a confirm has paired two devices that are both connected on open sockets
C2_Witness ==
    /\ ConfirmOk
    /\ Len(clients) = 2
    /\ \A i \in DOMAIN clients : sock[clients[i].ws] = "OPEN" /\ clients[i].pairId = last.pairId
    /\ Len(sent) = 2

\* C7: a confirm that finds a PendingPair with now > expiresAt returns 'Pair
\* code expired', deletes that pair, leaves the rooms and the registry as they
\* were and sends nothing; one that finds a pair with now <= expiresAt never
\* returns 'Pair code expired'.
C7_Expiry ==
    [][ (last'.op = "confirm" /\ last'.pre # NoPending)
        => IF now' > last'.pre.expiresAt
           THEN /\ last'.result = "Pair code expired"
                /\ pendingPairs' = MapRemove(pendingPairs, FormattedOf[last'.code])
                /\ FormattedOf[last'.code] \in DOMAIN pendingPairs
                /\ rooms' = rooms
                /\ clients' = clients
                /\ sent' = <<>>
           ELSE last'.result # "Pair code expired"
      ]_vars
\* a confirm one millisecond late, with both devices connected
C7_Witness ==
    /\ last.op = "confirm"
    /\ last.result = "Pair code expired"
    /\ now = last.pre.expiresAt + 1
    /\ Len(clients) = 2
    /\ \A i \in DOMAIN clients : clients[i].pairId = NoPair


\* C8: a confirm that finds an unexpired PendingPair (now <= expiresAt) whose
\* initiator has the confirmer's role returns 'Cannot pair same device types',
\* leaves rooms, registry and pending pairs as they were and sends nothing, and
\* in the resulting state a confirm of the same code by a device of the other
\* role succeeds.
C8_SameRoleKeepsPair ==
    [][ ( /\ last'.op = "confirm"
          /\ last'.pre # NoPending
          /\ last'.pre.platform = last'.platform
          /\ now' <= last'.pre.expiresAt )
        => /\ last'.result = "Cannot pair same device types"
           /\ rooms' = rooms
           /\ clients' = clients
           /\ pendingPairs' = pendingPairs
           /\ sent' = <<>>
           /\ \A d \in Devices, p \in Platforms \ {last'.platform} :
                 (PairingConfirm(last.code, d, p).result = "success")'
      ]_vars
\* C8 as stated, for every confirm whose role equals the initiator's: the
\* result is 'Cannot pair same device types', no Room is created and the
\* PendingPair stays.
C8_SameRoleAlways ==
    [][ ( /\ last'.op = "confirm"
          /\ last'.pre # NoPending
          /\ last'.pre.platform = last'.platform )
        => /\ last'.result = "Cannot pair same device types"
           /\ rooms' = rooms
           /\ pendingPairs' = pendingPairs
      ]_vars
\* a same-role confirm has been rejected at the last unexpired instant and the
\* pair is still pending
C8_Witness ==
    /\ last.op = "confirm"
    /\ last.result = "Cannot pair same device types"
    /\ last.pre.platform = last.platform
    /\ now = last.pre.expiresAt
    /\ FormattedOf[last.code] \in DOMAIN pendingPairs


\* the devices of a room
RoomDevices(r) == {rooms[r].desktopDeviceId, rooms[r].webDeviceId}

\* C3: the Room a successful confirm has created holds the initiator and the
\* confirmer, their declared roles differ, the device that declared "desktop"
\* is in desktopDeviceId and the one that declared "web" is in webDeviceId,
\* whichever of the two was the initiator.
C3_SlottedByRole ==
    ConfirmOk =>
       /\ last.pairId \in DOMAIN rooms
       /\ last.pre.platform # last.platform
       /\ \/ /\ last.platform = "desktop"
             /\ rooms[last.pairId].desktopDeviceId = last.dev
             /\ rooms[last.pairId].webDeviceId = last.pre.deviceId
          \/ /\ last.platform = "web"
             /\ rooms[last.pairId].webDeviceId = last.dev
             /\ rooms[last.pairId].desktopDeviceId = last.pre.deviceId
\* a room whose initiator was the web-role device
C3_Witness ==
    /\ ConfirmOk
    /\ last.pre.platform = "web"
    /\ last.platform = "desktop"
    /\ last.pre.deviceId # last.dev
    /\ rooms[last.pairId].desktopDeviceId = last.dev

\* C4: every deviceId is in at most one Room.
C4_OneRoomPerDevice ==
    \A r1, r2 \in DOMAIN rooms :
       RoomDevices(r1) \cap RoomDevices(r2) # {} => r1 = r2

\* C5: a requestPairCode by one device never replaces the PendingPair of
\* another device.
C5_NoForeignOverwrite ==
    last.op = "request" =>
       ~ (last.pre # NoPending /\ last.pre.deviceId # last.dev)

\* C6: after requestPairCode for device d exactly one PendingPair has
\* initiator d, the one just issued, and no code pending for d before the
\* request resolves any more.
C6_OnePendingPerDevice ==
    last.op = "request" =>
       /\ \A c \in DOMAIN pendingPairs :
             pendingPairs[c].deviceId = last.dev => c = last.code
       /\ last.code \in DOMAIN pendingPairs
       /\ pendingPairs[last.code].deviceId = last.dev
       /\ \A c \in last.prev :
             \A d \in Devices, p \in Platforms :
                PairingConfirm(c, d, p).result = "Invalid pair code"


\* a code with its letters in lower case and everything but letters and
\* digits left out: two codes that differ only in case or separators fold to
\* the same sequence
Fold(c) ==
    SelectSeq(Lowered(c), LAMBDA ch : ch \in Range(LowerLetters) \cup Digits)
FoldOf == [c \in AllInputs |-> Fold(c)]

\* C9: in every state of the hub, confirms of two codes that differ only in
\* letter case or in non-alphanumeric separators return the same result and
\* leave the same pending pairs, rooms and registry, for every confirmer.
C9_SpellingIrrelevant ==
    \A c1, c2 \in AllInputs :
       FoldOf[c1] = FoldOf[c2] =>
          \A d \in Devices, p \in Platforms :
             PairingConfirm(c1, d, p) = PairingConfirm(c2, d, p)
\* a confirm typed in lower case without the dash has created a room
C9_Witness ==
    /\ ConfirmOk
    /\ last.code \notin GenCodes
    /\ FormattedOf[last.code] # last.code
    /\ last.pre.pairCode = FormattedOf[last.code]


\* the frame handled last was a `message` or `session_*` frame from a
\* registered sender whose pairId names a room, and the other device of that
\* room is registered (a relay step changes neither registry, rooms nor sockets)
RelaySender == findClientByWs(clients, last.ws)
RelayPeer ==
    IF rooms[RelaySender.pairId].desktopDeviceId = RelaySender.deviceId
    THEN rooms[RelaySender.pairId].webDeviceId
    ELSE rooms[RelaySender.pairId].desktopDeviceId
RelayedToRegisteredPeer ==
    /\ last.op \in {"message", "session"}
    /\ HasClientByWs(clients, last.ws)
    /\ RelaySender.pairId \in DOMAIN rooms
    /\ MapHas(clients, RelayPeer)
DeliveredOnceToPeer ==
    /\ Len(sent) = 1
    /\ sent[1].to = MapGet(clients, RelayPeer).ws
    /\ JSONParse(sent[1].data) = JSONParse(last.frame)

SenderOf(ws) == findClientByWs(clients, ws)
PeerOf(ws) ==
    IF rooms[SenderOf(ws).pairId].desktopDeviceId = SenderOf(ws).deviceId
    THEN rooms[SenderOf(ws).pairId].webDeviceId
    ELSE rooms[SenderOf(ws).pairId].desktopDeviceId
BoundToRoom(ws) ==
    /\ HasClientByWs(clients, ws)
    /\ SenderOf(ws).pairId \in DOMAIN rooms

\* C11: a `message` or `session_*` frame from a registered sender bound to a
\* room whose peer has no registered Connection is dropped silently: the hub
\* sends nothing to any socket and changes no state.
C11_DroppedSilently ==
    [][ ( /\ last'.op \in {"message", "session"}
          /\ BoundToRoom(last'.ws)
          /\ ~MapHas(clients, PeerOf(last'.ws)) )
        => /\ sent' = <<>>
           /\ UNCHANGED <<sock, clients, pendingPairs, rooms>>
      ]_vars


\* the frame a step has put on the socket ws
Frame(ws, t, a) == [to |-> ws, data |-> JSONStringify(Msg(t, a))]

EvictedPeerOf(d) ==
    IF last.op = "heartbeat"
    THEN /\ \E c \in last.prev :
               /\ c.pairId \in DOMAIN rooms
               /\ c.deviceId # d
               /\ d \in RoomDevices(c.pairId)
         /\ MapHas(clients, d)
         /\ sock[MapGet(clients, d).ws] = "OPEN"
    ELSE FALSE
\* d is being told `peer_offline`, or is no longer there to be told
ToldOrGone(d) ==
    \/ ~MapHas(clients, d)
    \/ sock[MapGet(clients, d).ws] # "OPEN"
    \/ \E i \in DOMAIN sent :
          /\ sent[i].to = MapGet(clients, d).ws
          /\ sent[i].data.type = "peer_offline"

\* C13: when the reaper evicts a stale Connection bound to a room whose peer
\* is registered, the peer is sent `peer_offline` (at the latest when the close
\* event of the evicted socket has been handled), unless the peer has gone
\* away itself.
C13_ReaperNotifiesPeer ==
    \A d \in Devices : EvictedPeerOf(d) ~> ToldOrGone(d)


\* C14: a reaper tick removes from the registry exactly the Connections with
\* now - lastPing > 2 x the heartbeat interval and closes their sockets, leaves
\* the other Connections and the other sockets as they were, deletes exactly
\* the PendingPairs with now > expiresAt (none is left afterwards) and leaves
\* the others and all Rooms unchanged; and a `ping` on the socket of a
\* Connection sets its lastPing to now.
C14_ReaperTick ==
    [][ /\ last'.op = "heartbeat"
           => /\ clients' = SelectSeq(clients,
                     LAMBDA c : now - c.lastPing <= 2 * WS_HEARTBEAT_INTERVAL_MS)
              /\ \A w \in Sockets :
                    IF \E i \in DOMAIN clients :
                          /\ clients[i].ws = w
                          /\ now - clients[i].lastPing > 2 * WS_HEARTBEAT_INTERVAL_MS
                    THEN sock'[w] # "OPEN" /\ (sock[w] # "OPEN" => sock'[w] = sock[w])
                    ELSE sock'[w] = sock[w]
              /\ DOMAIN pendingPairs' =
                    {c \in DOMAIN pendingPairs : now <= pendingPairs[c].expiresAt}
              /\ \A c \in DOMAIN pendingPairs' :
                    pendingPairs'[c] = pendingPairs[c] /\ now' <= pendingPairs'[c].expiresAt
              /\ rooms' = rooms
        /\ (last'.op = "ping" /\ HasClientByWs(clients, last'.ws))
           => findClientByWs(clients', last'.ws).lastPing = now'
      ]_vars
\* a reaper tick has evicted one Connection and kept the other, deleted one
\* PendingPair and kept another, with a room in the table
C14_Witness ==
    /\ last.op = "heartbeat"
    /\ last.prev # {}
    /\ Len(clients) = 1
    /\ last.removed = 1
    /\ DOMAIN pendingPairs # {}
    /\ DOMAIN rooms # {}


\* C15: every Connection of the registry has a socket of its own, and
\* findClientByWs on that socket returns that Connection.
C15_InverseLookup ==
    /\ \A i, j \in DOMAIN clients : clients[i].ws = clients[j].ws => i = j
    /\ \A i \in DOMAIN clients : findClientByWs(clients, clients[i].ws) = clients[i]


\* the frames of fs whose socket is open, in order
OpenOnly(fs) == SelectSeq(fs, LAMBDA f : sock[f.to] = "OPEN")

\* C16: a `rejoin {pairId}` on a socket that has no Connection, or naming no
\* room, or from a device that is neither of the room's two, fails: registry,
\* room bindings, rooms, pending pairs and sockets stay as they were and the
\* only frame sent is one `rejoin_failed` to the sender (its socket being
\* open); every other rejoin succeeds and is not answered with `rejoin_failed`.
C16_RejoinValidation ==
    [][ last'.op = "rejoin"
        => IF \/ ~HasClientByWs(clients, last'.ws)
              \/ last'.pairId \notin DOMAIN rooms
              \/ SenderOf(last'.ws).deviceId \notin RoomDevices(last'.pairId)
           THEN /\ last'.result # "success"
                /\ UNCHANGED <<sock, clients, pendingPairs, rooms>>
                /\ Len(sent') = (IF sock[last'.ws] = "OPEN" THEN 1 ELSE 0)
                /\ \A i \in DOMAIN sent' :
                      /\ sent'[i].to = last'.ws
                      /\ sent'[i].data.type = "rejoin_failed"
           ELSE /\ last'.result = "success"
                /\ \A i \in DOMAIN sent' : sent'[i].data.type # "rejoin_failed"
      ]_vars
\* a registered device that is not in the room has been refused
C16_Witness ==
    /\ last.op = "rejoin"
    /\ last.result = "Device not in room"
    /\ sent = << Frame(last.ws, "rejoin_failed", "Device not in room") >>
    /\ last.prev = {NoPair}

\* what a successful rejoin on ws to room pairId sends, the sender's Connection
\* being me: `paired` to both sockets when the other device of the room is
\* registered and bound to the room, `rejoin_success` to the sender otherwise
RejoinOther(me, pairId) ==
    IF rooms[pairId].desktopDeviceId = me.deviceId
    THEN rooms[pairId].webDeviceId ELSE rooms[pairId].desktopDeviceId
PeerBound(me, pairId) ==
    /\ MapHas(clients, RejoinOther(me, pairId))
    /\ MapGet(clients, RejoinOther(me, pairId)).pairId = pairId
RejoinSucceeds ==
    last'.op = "rejoin" /\ last'.result = "success"

C18_RepeatedRejoin ==
    [][ ( /\ RejoinSucceeds
          /\ HasClientByWs(clients, last'.ws)
          /\ SenderOf(last'.ws).pairId = last'.pairId )
        => UNCHANGED <<sock, clients, pendingPairs, rooms>>
      ]_vars
\* the same successful rejoin has been handled twice in a row
C18_Witness ==
    /\ last.op = "rejoin"
    /\ last.result = "success"
    /\ last.pairId \in last.prev
    /\ Len(clients) = 2
    /\ HasClientByWs(clients, last.ws)
    /\ findClientByWs(clients, last.ws) = clients[1]


\* the token of the `auth` frame handled last has fewer than three fields or
\* names a role other than desktop and web
Malformed(token) ==
    \/ Len(token) < 3
    \/ token[3] \notin {"desktop", "web"}

C20_SessionCap ==
    [][ /\ Cardinality(SessionKeys(sessions')) <= maxSessions
        /\ Len(sessions') = Cardinality(SessionKeys(sessions'))
        /\ ( last'.op = "create" /\ Cardinality(SessionKeys(sessions)) = maxSessions )
           => /\ last'.result = "error"
              /\ UNCHANGED <<sessions, activeSessionId, nextId>>
      ]_vars
\* a create has failed at the cap after an earlier session was closed
C20_Witness ==
    /\ last.op = "create"
    /\ last.result = "error"
    /\ Len(sessions) = maxSessions
    /\ nextId > FirstId + maxSessions
    /\ activeSessionId # NoSession


\* the directory a create asks for: the one given, else the configured one
RequestedDir(dir) == IF dir # <<>> THEN dir ELSE defaultWorkingDirectory

\* C21: a create of the Bridge multiplexer whose working directory lies outside
\* the configured directory (the directory-scope guard rejects it) fails,
\* leaves the session map, the active id and the id counter as they were and
\* starts no worker.
C21_CreateGuarded ==
    [][ ( /\ last'.op = "create"
          /\ ~isDirectoryAllowed(<<defaultWorkingDirectory>>, RequestedDir(last'.dir)) )
        => /\ last'.result = "error"
           /\ UNCHANGED <<sessions, activeSessionId, nextId, workers>>
      ]_vars


\* the directory a step of the desktop agent asked for (none given: the default)
AskedDir == IF last.dir # <<>> THEN last.dir ELSE defaultDirectory
\* the step handled a create or a change of directory
AsksForDir ==
    \/ last.op = "session_create"
    \/ /\ last.op = "user_message"
       /\ parseCommand(last.frame).type \in {"new_session", "switch_dir", "change_dir"}

\* C22: every session of the desktop agent has a working directory that passes
\* the directory-scope guard, and a create or a change of directory asking for
\* a directory the guard rejects leaves the manager (the session set, every
\* session's directory, the active id) as it was.
C22_DirectoryScope ==
    [][ /\ \A i \in DOMAIN sessionManager'.sessions :
              isDirectoryAllowed(allowedDirectories,
                                 sessionManager'.sessions[i].workingDirectory)
        /\ ( /\ AsksForDir'
             /\ ~isDirectoryAllowed(allowedDirectories, AskedDir')
             /\ sessionManager.exists )
           => /\ UNCHANGED <<sessionManager, minted>>
              /\ last'.result # "success"
      ]_vars
\* a change of directory was refused while its session exists, and an earlier
\* one was accepted
C22_Witness ==
    /\ last.op = "user_message"
    /\ parseCommand(last.frame).type = "change_dir"
    /\ last.result = "not allowed"
    /\ \E i \in DOMAIN sessionManager.sessions :
          /\ sessionManager.sessions[i].id = last.pairId
          /\ sessionManager.sessions[i].workingDirectory = <<"/", "p", "/", "x">>

\* s begins with t
BeginsWith(s, t) == \E k \in 0..Len(s) : SubSeq(s, 1, k) = t
\* the guard of the specification: some allow-list entry has the canonical
\* form of p, or its canonical form followed by the separator begins it
InScope(p) ==
    \E i \in DOMAIN argv :
        \/ resolve(p) = resolve(argv[i])
        \/ BeginsWith(resolve(p), resolve(argv[i]) \o <<"/">>)

\* C23: a create is refused as outside the allow-list exactly when the
\* directory asked for is neither an allow-list entry nor below one (canonical
\* forms compared, the separator included); with /p allowed, /p/x is accepted
\* and /pe, /e and /p/../e are refused.
C23_GuardIsPrefixTest ==
    [][ last'.op = "session_create"
        => /\ (last'.result = "not allowed") <=> ~InScope(AskedDir')
           /\ last'.dir = <<"/", "p", "/", "x">> => last'.result = "success"
           /\ last'.dir \in { <<"/", "p", "e">>, <<"/", "e">>,
                              <<"/", "p", "/", ".", ".", "/", "e">> }
              => last'.result = "not allowed"
      ]_vars
\* a directory that begins like an allow-list entry but is its sibling was refused
C23_Witness ==
    /\ last.op = "session_create"
    /\ last.dir = <<"/", "p", "e">>
    /\ last.result = "not allowed"
    /\ sessionManager.sessions # <<>>


\* the state of session id in manager m
StateOf(m, id) == SessionGet(m.sessions, id)
\* the `message` frame handled last names an existing session that is not the
\* active one
NamesInactive ==
    /\ last'.op = "user_message"
    /\ sessionManager.exists
    /\ SessionHas(sessionManager.sessions, last'.id)
    /\ last'.id # sessionManager.activeSessionId
\* nothing but session id has changed in the manager
OnlyChanged(id) ==
    /\ sessionManager'.activeSessionId = sessionManager.activeSessionId
    /\ Len(sessionManager'.sessions) = Len(sessionManager.sessions)
    /\ \A i \in DOMAIN sessionManager.sessions :
          sessionManager.sessions[i].id # id
          => sessionManager'.sessions[i] = sessionManager.sessions[i]
    /\ minted' = minted

\* C30 as stated: a `message` frame naming an existing session other than the
\* active one starts that session's child with the text, leaves the active id
\* and the other sessions alone, and every frame sent carries that session id.
C30_RoutedBySessionId ==
    [][ NamesInactive
        => /\ StateOf(sessionManager', last'.id).claudeProcess.running
           /\ StateOf(sessionManager', last'.id).claudeProcess.prompt = last'.frame
           /\ OnlyChanged(last'.id)
           /\ \A k \in DOMAIN sent' : sent'[k].sessionId = last'.id
      ]_vars

\* C30: a `message` frame naming an existing session other than the active one,
\* whose text is not a session command, changes nothing but that session: if
\* the session has no child running, a child is spawned for it with the text in
\* its working directory and no frame is sent; otherwise nothing changes and
\* one error frame carrying that session id is sent.  Every frame a child's
\* close or error event sends carries the id of the child's session.
C30_PlainTextRouted ==
    [][ /\ ( NamesInactive /\ parseCommand(last'.frame) = NoCommand )
           => /\ OnlyChanged(last'.id)
              /\ IF StateOf(sessionManager, last'.id).claudeProcess.running
                 THEN /\ UNCHANGED sessionManager
                      /\ Len(sent') = 1
                      /\ sent'[1].type = "message"
                      /\ sent'[1].sessionId = last'.id
                 ELSE /\ StateOf(sessionManager', last'.id).claudeProcess =
                             [running |-> TRUE, prompt |-> last'.frame,
                              cwd |-> StateOf(sessionManager, last'.id).workingDirectory,
                              continue |-> ~StateOf(sessionManager, last'.id).isFirstMessage]
                      /\ sent' = <<>>
        /\ last'.op \in {"child_close", "child_error"}
           => /\ OnlyChanged(last'.id)
              /\ \A k \in DOMAIN sent' :
                    sent'[k].type = "message" /\ sent'[k].sessionId = last'.id
      ]_vars
\* a text has been routed to a session that is not the active one, whose child
\* is now running with it, while the active session has no child
C30_Witness ==
    /\ last.op = "user_message"
    /\ last.frame = "hello"
    /\ sessionManager.exists
    /\ last.id # NoSession
    /\ last.id # sessionManager.activeSessionId
    /\ SessionHas(sessionManager.sessions, last.id)
    /\ StateOf(sessionManager, last.id).claudeProcess.running
    /\ StateOf(sessionManager, last.id).claudeProcess.prompt = "hello"
    /\ SessionHas(sessionManager.sessions, sessionManager.activeSessionId)
    /\ ~StateOf(sessionManager, sessionManager.activeSessionId).claudeProcess.running

\* ------------------------------------------------------------ worker claims
\* the children of a worker that are alive: spawned, not killed, not exited
Alive(w) == { c \in DOMAIN w.children : w.children[c].state = "running" }

\* the user messages a worker's live children are still working on
InFlight(w) == { c \in Alive(w) : w.children[c].pending > 0 }

\* a send to a busy worker is refused as busy and writes to no child
BusyRejects ==
    ( /\ last'.op = "send"
      /\ last'.id \in DOMAIN workers
      /\ workers[last'.id].isBusy )
    => /\ last'.result = "busy"
       /\ workers'[last'.id].children = workers[last'.id].children

\* C24: while a session's worker is busy every further send to it is rejected
\* with an error and writes to no child, and at most one user message is in
\* flight per session at any time.
C24_OneInFlight ==
    [][ /\ BusyRejects
        /\ \A id \in DOMAIN workers' :
              /\ Cardinality(InFlight(workers'[id])) <= 1
              /\ \A c \in InFlight(workers'[id]) : workers'[id].children[c].pending = 1
      ]_vars

\* C25: at most one child process spawned by a worker is alive at any time,
\* whatever the interleaving of start, stop, forceStop, restart, the children's
\* close and error events and the two timers.
C25_OneChildAlive ==
    \A id \in DOMAIN workers : Cardinality(Alive(workers[id])) <= 1

\* C26: in every reachable state a Session's status is busy iff the busy flag
\* of its worker is set.
C26_StatusIsBusyFlag ==
    \A i \in DOMAIN sessions :
        (sessions[i].status = "busy") <=> workers[sessions[i].id].isBusy

\* C27: the worker of a closed session (close or stopAll) has no live child,
\* and none is spawned for it afterwards.
C27_ClosedStaysDown ==
    \A id \in DOMAIN workers :
        ~SessionHas(sessions, id) => Alive(workers[id]) = {}

\* the exit of the child the worker holds, which nobody asked for
UnexpectedExit ==
    /\ last'.op \in {"close event", "error event"}
    /\ last'.id \in DOMAIN workers
    /\ workers[last'.id].process = last'.child

\* a child of worker `id` has just exited or failed
Exited(id) == last.id = id /\ last.op \in {"close event", "error event"}

\* worker `id` is running and holds a live child
Restarted(id) ==
    /\ id \in DOMAIN workers
    /\ workers[id].isRunning
    /\ workers[id].process \in Alive(workers[id])

\* C28: when the child a worker holds exits unexpectedly, the worker emits the
\* buffered partial response, if there is one, as a `message` of subtype error
\* and then `exit`, and schedules a restart; when the restart delay has passed
\* the worker holds a running child and is running, and it accepts a send
\* unless it has accepted one already; a send to a running worker that is not
\* busy is accepted and written to the child it holds; and after every exit
\* of a child the worker is eventually running with a live child again.
C28_CrashReportedAndRestarted ==
    /\ \A id \in 1..MaxIds : Exited(id) ~> Restarted(id)
    /\ [][ /\ UnexpectedExit =>
              /\ last'.emitted =
                    (IF workers[last'.id].currentResponse # <<>>
                     THEN <<Event("message", "error")>> ELSE <<>>)
                    \o <<Event("exit", "")>>
              /\ workers'[last'.id].timers.auto = workers[last'.id].timers.auto + 1
              /\ ~workers'[last'.id].isBusy
        /\ last'.op = "auto timer" =>
              LET w == workers'[last'.id]
              IN  /\ w.process \in Alive(w)
                  /\ w.isRunning
                  /\ ProcessSendResult(w) =
                        (IF workers[last'.id].isBusy THEN "busy" ELSE "")
        /\ ( /\ last'.op = "send"
             /\ last'.id \in DOMAIN workers
             /\ workers[last'.id].isRunning
             /\ ~workers[last'.id].isBusy )
           => /\ last'.result = "accepted"
              /\ workers'[last'.id].children[workers[last'.id].process].pending =
                    workers[last'.id].children[workers[last'.id].process].pending + 1
       ]_vars

\* C28: a child has crashed in the middle of its answer: the partial response
\* went out as an error message, then exit, and the restart is pending
C28_Witness ==
    /\ last.op = "close event"
    /\ last.emitted = <<Event("message", "error"), Event("exit", "")>>
    /\ workers[last.id].children[last.child].state = "closed"
    /\ workers[last.id].timers.auto = 1
    /\ Alive(workers[last.id]) = {}

\* C29: the usage counters of a worker only grow, except at the start that a
\* restart() has scheduled; the start that follows a crash keeps them.
C29_CountersResetByRestartOnly ==
    [][ \A id \in DOMAIN workers :
           ( \/ workers'[id].sessionInfo.messageCount < workers[id].sessionInfo.messageCount
             \/ workers'[id].sessionInfo.totalInputTokens < workers[id].sessionInfo.totalInputTokens
             \/ workers'[id].sessionInfo.totalOutputTokens < workers[id].sessionInfo.totalOutputTokens
             \/ workers'[id].sessionInfo.totalCostUsd < workers[id].sessionInfo.totalCostUsd )
           => last'.op = "restart timer"
      ]_vars

\* ------------------------------------------------------- multiplexer claims
\* the session created first among those of m: ids are handed out in order
Oldest(m) ==
    IF m = <<>> THEN NoSession
    ELSE CHOOSE id \in SessionKeys(m) : \A other \in SessionKeys(m) : id <= other

\* C35: a close removes exactly the session it names; when that session was
\* the active one the oldest remaining session becomes active (none when no
\* session remains), otherwise the active id stays; a create makes the new
\* session active only when it is the first session.
C35_CloseAndCreateActivate ==
    [][ /\ (last'.op = "close" /\ last'.result = "success") =>
              /\ SessionHas(sessions, last'.id)
              /\ sessions' = SelectSeq(sessions, LAMBDA x : x.id # last'.id)
              /\ activeSessionId' =
                    IF activeSessionId = last'.id THEN Oldest(sessions')
                    ELSE activeSessionId
        /\ (last'.op = "create" /\ last'.result = "success") =>
              activeSessionId' =
                 IF sessions = <<>> THEN last'.id ELSE activeSessionId
      ]_vars

\* C35: the active session was closed while two younger ones remained, and
\* the older of the two is active now
C35_Witness ==
    /\ last.op = "close"
    /\ last.result = "success"
    /\ last.prev = {last.id}
    /\ Len(sessions) = 2
    /\ activeSessionId = Oldest(sessions)
    /\ activeSessionId # sessions[2].id

\* the sessions the argument of a switch names: the one whose id is the number
\* it denotes if there is one, otherwise the first whose name is the argument
NamedBy(arg) ==
    LET n == IF arg.typeof = "number" THEN arg.value ELSE parseInt(arg.value)
        byId == { id \in SessionKeys(sessions) : id = n }
        byName == IF arg.typeof = "number" THEN {}
                  ELSE { id \in SessionKeys(sessions) :
                            SessionGet(sessions, id).name = arg.value }
    IN  IF byId # {} THEN byId ELSE byName

\* C36: a switch succeeds iff a session has the id the argument denotes or,
\* failing that, a name equal to the argument, and then makes that session
\* active; otherwise it fails and the active id stays.
C36_SwitchByIdThenName ==
    [][ last'.op = "switch" =>
           IF NamedBy(last'.frame) = {}
           THEN last'.result = "error" /\ activeSessionId' = activeSessionId
           ELSE last'.result = "success" /\ activeSessionId' \in NamedBy(last'.frame)
      ]_vars

\* C37: the active id is none iff there is no session, and otherwise it is the
\* id of a session in the map.
C37_ActiveIsASession ==
    /\ (activeSessionId = NoSession) <=> (sessions = <<>>)
    /\ activeSessionId # NoSession => SessionHas(sessions, activeSessionId)

\* C37: the active session has been closed and another one has taken its place
C37_Witness ==
    /\ last.op = "close"
    /\ last.result = "success"
    /\ last.prev = {last.id}
    /\ sessions # <<>>
    /\ SessionHas(sessions, activeSessionId)

\* ------------------------------------------------------------- hub claims 2
\* C38: the close event of a socket leaves every Connection that is on another
\* socket in the registry; when the socket is one a re-authentication has
\* displaced (no Connection is on it any more) the registry stays as it is
\* and no frame, peer_offline included, is sent.
C38_DisplacedCloseIsInert ==
    [][ last'.op = "close" =>
          /\ \A i \in DOMAIN clients :
                clients[i].ws # last'.ws =>
                   \E j \in DOMAIN clients' : clients'[j] = clients[i]
          /\ ~HasClientByWs(clients, last'.ws) =>
                (clients' = clients /\ sent' = <<>>)
      ]_vars

\* C38: the socket the hub closed when its device authenticated again has
\* delivered its close event; the device is registered on its new socket and
\* a paired device is registered too
C38_Witness ==
    /\ last.op = "close"
    /\ last.result = "CLOSING"
    /\ last.dev = ""
    /\ \E i \in DOMAIN clients :
          /\ clients[i].ws # last.ws
          /\ sock[clients[i].ws] = "OPEN"
    /\ \E i \in DOMAIN clients : clients[i].pairId # NoPair

\* C39: a relayed frame is put on the wire only for a Connection whose pairId
\* is the sender's.
C39_RelayWithinRoom ==
    [][ (last'.op \in {"message", "session"} /\ last'.result = "relay") =>
           \A k \in DOMAIN sent' :
              \A i \in DOMAIN clients :
                 clients[i].ws = sent'[k].to =>
                    clients[i].pairId = findClientByWs(clients, last'.ws).pairId
      ]_vars

\* C31: an update from a chat that has not given the password makes the bot
\* emit nothing, so that neither the sessions nor the queue change; the chat
\* is authenticated by that update exactly when its prompt was pending and
\* the text is no command and equals the password; a wrong password leaves it
\* unauthenticated with the prompt pending; no other chat is admitted.
C31_PasswordGate ==
    [][ LET chatId == update'.chatId
            text == update'.text
        IN  /\ authenticatedChats \subseteq authenticatedChats'
            /\ authenticatedChats' \subseteq authenticatedChats \cup {chatId}
            /\ chatId \notin authenticatedChats =>
                  /\ update'.emitted = <<>>
                  /\ UNCHANGED <<bridgeVars, queueVars>>
                  /\ chatId \in authenticatedChats' <=>
                        /\ chatId \in pendingAuth
                        /\ ~IsCommand(text)
                        /\ text = authPassword
                  /\ (chatId \in pendingAuth /\ ~IsCommand(text) /\ text # authPassword)
                        => chatId \notin authenticatedChats' /\ chatId \in pendingAuth'
      ]_vars

\* a chat that was prompted has given the password, after another chat got
\* a session by a command
C31_Witness ==
    /\ update.reply = "authenticated"
    /\ update.chatId \in authenticatedChats
    /\ sessions # <<>>

\* a suspended call hands `text` to the session in this step
HandsOver(kind, text) ==
    /\ Task(kind, text) \in tasks
    /\ Task(kind, text) \notin tasks'
    /\ last'.op = "send"
Accepted(kind, text) == HandsOver(kind, text) /\ last'.result = "accepted"

\* C32: a text that arrives while the active session is busy is appended to
\* the queue; and when Message(1) was accepted and Message(2) and Message(3)
\* were queued behind it in this order, the session is handed Message(3) only
\* after it was handed Message(2), each when it is not busy.
C32_QueuedInOrder ==
    [][ /\ (update' # update /\ update'.emitted # <<>>
            /\ update'.emitted[1].name = "message" /\ isCurrentBusy)
              => messageQueue' = Append(messageQueue, update'.text)
        /\ \A k \in 2..MaxMessages :
              ( /\ Len(received) >= k
                /\ received[1].handed # NoSession
                /\ \A j \in 2..k : received[j].position = j - 1
                /\ Accepted("handoff", Message(k)) )
              => /\ ~isCurrentBusy
                 /\ \A j \in 1..(k - 1) : received[j].handed # NoSession
      ]_vars

\* the bot forwards `update'.text` to the Bridge in this step
Forwarded ==
    /\ update' # update \/ received' # received
    /\ update'.emitted # <<>>
    /\ update'.emitted[1].name = "message"

\* processQueue is suspended between its shift and the hand-over
Suspended == \E t \in tasks : t.kind = "handoff"

\* the texts taken into the queue and not yet handed over
Undispatched == Range(messageQueue) \cup { t.text : t \in { u \in tasks : u.kind = "handoff" } }

\* C33: a text that arrives while the queue is not empty, or while
\* processQueue holds a text it has shifted and not yet handed over, is
\* appended to the queue; and no text is handed to the session while a text
\* received before it is still in the queue or in processQueue's hands.
C33_NoOvertaking ==
    [][ /\ (Forwarded /\ (Len(messageQueue) > 0 \/ Suspended))
              => messageQueue' = Append(messageQueue, update'.text)
        /\ \A k \in 1..MaxMessages, kind \in {"direct", "handoff"} :
              Accepted(kind, Message(k))
              => \A j \in 1..(k - 1) : Message(j) \notin Undispatched
      ]_vars

\* C34: a text shifted from the queue is handed to the session that was
\* active when the text was queued.
C34_QueueBoundToSession ==
    [][ \A k \in 1..MaxMessages :
           (Len(received) >= k /\ HandsOver("handoff", Message(k)))
           => /\ last'.result # "no session"
              /\ last'.id = received[k].session
      ]_vars

\* the operator's /stop or /restart is handled in this step
Cleared ==
    /\ update' # update
    /\ update'.emitted \in {<<Event("command", "stop")>>, <<Event("command", "restart")>>}

\* C40: a text taken into the queue leaves it, or the hands of processQueue,
\* only when the session accepts it or when /stop or /restart clears the
\* queue.
C40_NothingDiscarded ==
    [][ \A k \in 1..MaxMessages :
           (Message(k) \in Undispatched /\ Message(k) \notin Undispatched')
           => \/ Accepted("handoff", Message(k))
              \/ Cleared
      ]_vars

====
